---- MODULE Spec2Model ----
(***************************************************************************)
(* Model of the request execution engine of http-visualizer-app            *)
(* (internal/proxy: executor.go, response_builder.go; internal/infra:      *)
(* dns.go).  One execution of ExecuteRequest is modelled as a sequential   *)
(* process whose steps are the network suspension points of the code.      *)
(*                                                                         *)
(* Strings that the code parses or formats (URLs, Location values, IP      *)
(* literals, methods, header names) are sequences of one-character         *)
(* strings, so that parsing and re-building are computed and not assumed.  *)
(* The alphabet of URLs has lower-case letters, digits and the punctuation *)
(* : / ? [ ] . + - ; user-info (@), fragments (#) and percent-escapes are  *)
(* outside it.  Methods and header names also have upper-case letters and  *)
(* the space.                                                              *)
(* The clock counts milliseconds.                                          *)
(*                                                                         *)
(* Spec is one execution; SpecLive is Spec under weak fairness of its      *)
(* steps; SpecPair interleaves two executions of one process;              *)
(* SpecRedirect applies updateFromRedirect to a request context; SpecWeb   *)
(* is the static file server of the web deployment; SpecStore is the       *)
(* SQLite storage of the desktop application.                              *)
(***************************************************************************)
EXTENDS Integers, Sequences, FiniteSets, TLC

VARIABLES
    request,        \* ProxyRequest: Method, URL, Headers, Body, Timeout
    server,         \* the behaviour of the remote side during this execution
    latency,        \* the longest time one network step takes in this run
    caller,         \* the caller: "patient", "impatient" or "cancelled"
    now,            \* time.Now(), in milliseconds
    pc,             \* position of the execution inside ExecuteRequest
    ctx,            \* requestContext: url, host, port, path, isHTTPS
    timing,         \* DetailedTiming
    dns,            \* serverIP / resolvedIPs
    redirectChain,  \* []RedirectHop
    tlsInfo,        \* *infra.CertInfo captured by DialTLSContext
    isFirstRequest, \* the first-request flag
    hop,            \* per-iteration locals: hopStart, deadline, httpReq
    resp,           \* the response of the current exchange
    exchanges,      \* history: the responses received so far, in order
    sockets,        \* the connections dialled so far: "open", "idle", "closed"
    result,         \* the ProxyResponse returned (meaningful when pc = "done")
    peer,           \* a second execution in the same process, while the
                    \* scheduler runs this one: <<its locals>>; Empty when
                    \* this execution is the only one
    db,             \* the rows of the table storage of the Database
    calls           \* history: the calls that changed the Database, in order

vars == <<request, server, latency, caller, now, pc, ctx, timing, dns, redirectChain,
          tlsInfo, isFirstRequest, hop, resp, exchanges, sockets, result, peer,
          db, calls>>

(***************************************************************************)
(* Bounds of the model and constants of the program.                       *)
(***************************************************************************)
MaxTime == 4            \* the clock stops advancing here
MaxStep == 1            \* longest duration of one network step
MaxRedirects == 20      \* executor.go: MaxRedirects
DefaultTimeoutMS == 30000
MaxTimeout == 2         \* largest request.Timeout tried, in milliseconds
MaxTimedRedirects == 2  \* redirects in the runs where time passes
MaxCalls == 4           \* calls that change the Database in one run
MaxRequestRedirects == 5 \* redirects in the runs that vary the request

(***************************************************************************)
(* Strings as sequences of characters.                                     *)
(***************************************************************************)
Digit == {"0", "1", "2", "3", "4", "5", "6", "7", "8", "9"}
Letter == {"a", "b", "c", "d", "e", "f", "g", "h", "i", "j", "k", "l", "m",
           "n", "o", "p", "q", "r", "s", "t", "u", "v", "w", "x", "y", "z"}

Empty == << >>

\* strings.Index(s, c) + 1 for a one-character c; 0 when absent
IndexOf(s, c) ==
    IF \E i \in 1..Len(s) : s[i] = c
    THEN CHOOSE i \in 1..Len(s) : s[i] = c /\ \A j \in 1..(i - 1) : s[j] # c
    ELSE 0

\* strings.LastIndex(s, c) + 1; 0 when absent
LastIndexOf(s, c) ==
    IF \E i \in 1..Len(s) : s[i] = c
    THEN CHOOSE i \in 1..Len(s) : s[i] = c /\ \A j \in (i + 1)..Len(s) : s[j] # c
    ELSE 0

HasPrefix(s, p) == Len(s) >= Len(p) /\ SubSeq(s, 1, Len(p)) = p

HasSuffix(s, p) == Len(s) >= Len(p) /\ SubSeq(s, Len(s) - Len(p) + 1, Len(s)) = p

\* s[i:] of Go for a 0-based i, i.e. the suffix after the first i characters
From(s, i) == SubSeq(s, i + 1, Len(s))

\* s[:i] of Go, the first i characters
UpTo(s, i) == SubSeq(s, 1, i)

(***************************************************************************)
(* net/url as far as the executor uses it.                                 *)
(***************************************************************************)
\* url.validOptionalPort: "" or ":" followed by digits only
validOptionalPort(port) ==
    \/ port = Empty
    \/ /\ port[1] = ":"
       /\ \A i \in 2..Len(port) : port[i] \in Digit

\* url.getScheme stops at the first character that cannot continue a scheme:
\* the position of that character, 0 when the whole string is scheme-like
SchemeStop(rawURL) ==
    IF \E i \in 1..Len(rawURL) :
          /\ rawURL[i] \notin Letter
          /\ ~(rawURL[i] \in (Digit \cup {"+", "-", "."}) /\ i > 1)
    THEN CHOOSE i \in 1..Len(rawURL) :
          /\ rawURL[i] \notin Letter
          /\ ~(rawURL[i] \in (Digit \cup {"+", "-", "."}) /\ i > 1)
          /\ \A j \in 1..(i - 1) :
                \/ rawURL[j] \in Letter
                \/ rawURL[j] \in (Digit \cup {"+", "-", "."}) /\ j > 1
    ELSE 0

\* url.getScheme, given where it stops: [err, scheme, rest]
SchemeAt(rawURL, k) ==
    IF k = 0 THEN [err |-> FALSE, scheme |-> Empty, rest |-> rawURL]
    ELSE IF rawURL[k] # ":" THEN [err |-> FALSE, scheme |-> Empty, rest |-> rawURL]
    ELSE IF k = 1 THEN [err |-> TRUE, scheme |-> Empty, rest |-> Empty]
    ELSE [err |-> FALSE, scheme |-> UpTo(rawURL, k - 1), rest |-> From(rawURL, k)]

getScheme(rawURL) == SchemeAt(rawURL, SchemeStop(rawURL))

\* url.parseHost, given the position of the last "]" or ":" (0 when absent):
\* whether the host[:port] part of an authority is rejected
HostErrAt(host, bracket, colon) ==
    IF HasPrefix(host, <<"[">>)
    THEN bracket = 0 \/ ~validOptionalPort(From(host, bracket))
    ELSE colon # 0 /\ ~validOptionalPort(From(host, colon - 1))

parseHostErr(host) == HostErrAt(host, LastIndexOf(host, "]"), LastIndexOf(host, ":"))

\* a parsed *url.URL
URL(scheme, opaque, host, path, hasQuery, query) ==
    [err |-> FALSE, Scheme |-> scheme, Opaque |-> opaque, Host |-> host,
     Path |-> path, HasQuery |-> hasQuery, RawQuery |-> query]

ParseFailure ==
    [err |-> TRUE, Scheme |-> Empty, Opaque |-> Empty, Host |-> Empty,
     Path |-> Empty, HasQuery |-> FALSE, RawQuery |-> Empty]

\* url.parse from the authority on: authority is what follows "//" up to the
\* next "/", rest is the path
ParseAuthority(scheme, authority, rest, hasQuery, query) ==
    IF parseHostErr(authority) THEN ParseFailure
    ELSE URL(scheme, Empty, authority, rest, hasQuery, query)

\* the split of what follows "//" at its first "/" (slash is its position)
SplitAuthority(scheme, after, slash, hasQuery, query) ==
    IF slash = 0
    THEN ParseAuthority(scheme, after, Empty, hasQuery, query)
    ELSE ParseAuthority(scheme, UpTo(after, slash - 1), From(after, slash - 1),
                        hasQuery, query)

\* url.parse after the scheme and the query were cut off; slash is the
\* position of the first "/" of rest
ParseHier(scheme, rest, slash, hasQuery, query) ==
    IF ~HasPrefix(rest, <<"/">>) /\ scheme # Empty
    THEN URL(scheme, rest, Empty, Empty, hasQuery, query)
    ELSE IF /\ ~HasPrefix(rest, <<"/">>)
            /\ IndexOf(IF slash = 0 THEN rest ELSE UpTo(rest, slash - 1), ":") # 0
    THEN ParseFailure
    ELSE IF /\ scheme # Empty \/ ~HasPrefix(rest, <<"/", "/", "/">>)
            /\ HasPrefix(rest, <<"/", "/">>)
    THEN SplitAuthority(scheme, From(rest, 2), IndexOf(From(rest, 2), "/"),
                        hasQuery, query)
    ELSE URL(scheme, Empty, Empty, rest, hasQuery, query)

\* url.parse after getScheme: the query is cut at the first "?" (position q)
ParseQuery(scheme, rest, q) ==
    IF q = 0
    THEN ParseHier(scheme, rest, IndexOf(rest, "/"), FALSE, Empty)
    ELSE ParseHier(scheme, UpTo(rest, q - 1), IndexOf(UpTo(rest, q - 1), "/"),
                   TRUE, From(rest, q))

ParseScheme(sch) ==
    IF sch.err THEN ParseFailure
    ELSE ParseQuery(sch.scheme, sch.rest, IndexOf(sch.rest, "?"))

\* url.Parse (viaRequest = false)
Parse(rawURL) == ParseScheme(getScheme(rawURL))

\* url.splitHostPort once the port is cut off: the brackets of an IPv6
\* literal are removed
Unbracket(h) ==
    IF HasPrefix(h, <<"[">>) /\ HasSuffix(h, <<"]">>)
    THEN SubSeq(h, 2, Len(h) - 1) ELSE h

\* url.splitHostPort, given the position of the last ":": [host, port]
SplitAt(hostPort, colon) ==
    IF colon # 0 /\ validOptionalPort(From(hostPort, colon - 1))
    THEN [host |-> Unbracket(UpTo(hostPort, colon - 1)),
          port |-> From(hostPort, colon)]
    ELSE [host |-> Unbracket(hostPort), port |-> Empty]

splitHostPort(hostPort) == SplitAt(hostPort, LastIndexOf(hostPort, ":"))

\* (*URL).Hostname and (*URL).Port
Hostname(u) == splitHostPort(u.Host).host
Port(u) == splitHostPort(u.Host).port

\* (*URL).RequestURI before the query is added
RequestPath(u) ==
    IF u.Opaque = Empty
    THEN IF u.Path = Empty THEN <<"/">> ELSE u.Path
    ELSE IF HasPrefix(u.Opaque, <<"/", "/">>)
         THEN u.Scheme \o <<":">> \o u.Opaque ELSE u.Opaque

\* (*URL).RequestURI
RequestURI(u) ==
    IF u.HasQuery THEN RequestPath(u) \o <<"?">> \o u.RawQuery ELSE RequestPath(u)

\* net.JoinHostPort
JoinHostPort(host, port) ==
    IF IndexOf(host, ":") # 0
    THEN <<"[">> \o host \o <<"]", ":">> \o port
    ELSE host \o <<":">> \o port

(***************************************************************************)
(* Literals used by the program.                                           *)
(***************************************************************************)
HTTP == <<"h", "t", "t", "p">>
HTTPS == <<"h", "t", "t", "p", "s">>
SchemeSep == <<":", "/", "/">>
Port80 == <<"8", "0">>
Port443 == <<"4", "4", "3">>
Slash == <<"/">>

(***************************************************************************)
(* requestContext (executor.go).                                           *)
(***************************************************************************)
NoContext ==
    [url |-> Empty, host |-> Empty, port |-> Empty, path |-> Empty,
     isHTTPS |-> FALSE]

\* the port and path defaults shared by construction and absolute redirects
DefaultPort(isHTTPS) == IF isHTTPS THEN Port443 ELSE Port80

\* the fields newRequestContext and updateFromRedirect take from a parsed
\* URL: the port defaults by scheme, the path defaults to "/"
Fields(url, isHTTPS, host, port, path) ==
    [url |-> url, host |-> host,
     port |-> IF port = Empty THEN DefaultPort(isHTTPS) ELSE port,
     path |-> IF path = Empty THEN Slash ELSE path,
     isHTTPS |-> isHTTPS]

\* newRequestContext after url.Parse: [err, ctx]
ContextOf(rawURL, parsed) ==
    IF parsed.err THEN [err |-> TRUE, ctx |-> NoContext]
    ELSE IF parsed.Host = Empty THEN [err |-> TRUE, ctx |-> NoContext]
    ELSE [err |-> FALSE,
          ctx |-> Fields(rawURL, parsed.Scheme = HTTPS, Hostname(parsed),
                         Port(parsed), RequestURI(parsed))]

\* newRequestContext: [err, ctx]
newRequestContext(rawURL) == ContextOf(rawURL, Parse(rawURL))

\* hostWithPort with the port in every case (what C20 rules out)
HostAlwaysWithPort(c) == JoinHostPort(c.host, c.port)

\* hostWithPort of updateFromRedirect: the port is left out when it is the
\* default of the scheme
HostWithPort(c) ==
    IF c.port # DefaultPort(c.isHTTPS) THEN JoinHostPort(c.host, c.port) ELSE c.host

\* nextURL of updateFromRedirect: scheme://host[:port]path
RebuildURL(c) ==
    (IF c.isHTTPS THEN HTTPS ELSE HTTP) \o SchemeSep \o HostWithPort(c) \o c.path

\* nextURL returned without being stored in the context (what C6 rules out)
ReturnURL(c, nextURL) == [ctx |-> c, nextURL |-> nextURL]

\* c.url = nextURL; return nextURL
SetURL(c, nextURL) == [ctx |-> [c EXCEPT !.url = nextURL], nextURL |-> nextURL]

\* the absolute branch of updateFromRedirect after url.Parse
AbsoluteRedirect(c, location, parsed) ==
    IF parsed.err THEN SetURL(c, location)
    ELSE SetURL(Fields(c.url, parsed.Scheme = HTTPS, Hostname(parsed),
                       Port(parsed), RequestURI(parsed)),
                RebuildURL(Fields(c.url, parsed.Scheme = HTTPS, Hostname(parsed),
                                  Port(parsed), RequestURI(parsed))))

\* the relative branch of updateFromRedirect: only the path changes
RelativeRedirect(c, path) ==
    SetURL([c EXCEPT !.path = path], RebuildURL([c EXCEPT !.path = path]))

\* the directory of a path: the path up to its last "/"
Dir(path) == UpTo(path, LastIndexOf(path, "/"))

\* a relative Location resolved against the current path, as RFC 3986 does
\* (what C19 rules out)
updateFromRedirectRFC(c, location) ==
    IF HasPrefix(location, HTTP \o SchemeSep) \/ HasPrefix(location, HTTPS \o SchemeSep)
    THEN AbsoluteRedirect(c, location, Parse(location))
    ELSE RelativeRedirect(c, IF HasPrefix(location, Slash) THEN location
                             ELSE Dir(c.path) \o location)

\* requestContext.updateFromRedirect: [ctx, nextURL]
updateFromRedirect(c, location) ==
    IF HasPrefix(location, HTTP \o SchemeSep) \/ HasPrefix(location, HTTPS \o SchemeSep)
    THEN AbsoluteRedirect(c, location, Parse(location))
    ELSE RelativeRedirect(c, IF HasPrefix(location, Slash) THEN location
                             ELSE Slash \o location)

(***************************************************************************)
(* DetailedTiming (response_builder.go).  A *time.Time is << >> when nil   *)
(* and <<t>> when set.                                                     *)
(***************************************************************************)
NewDetailedTiming(t) ==
    [DNSStart |-> Empty, DNSEnd |-> Empty, TCPStart |-> Empty, TCPEnd |-> Empty,
     TLSStart |-> Empty, TLSEnd |-> Empty, RequestStart |-> Empty,
     TTFB |-> Empty, DownloadStart |-> Empty, DownloadEnd |-> Empty,
     TotalStart |-> t]

StartDNS(tm, t) == [tm EXCEPT !.DNSStart = <<t>>]
EndDNS(tm, t) == [tm EXCEPT !.DNSEnd = <<t>>]
StartTCP(tm, t) == [tm EXCEPT !.TCPStart = <<t>>]
EndTCP(tm, t) == [tm EXCEPT !.TCPEnd = <<t>>]
StartTLS(tm, t) == [tm EXCEPT !.TLSStart = <<t>>]
EndTLS(tm, t) == [tm EXCEPT !.TLSEnd = <<t>>]
StartRequest(tm, t) == [tm EXCEPT !.RequestStart = <<t>>]
MarkTTFB(tm, t) == [tm EXCEPT !.TTFB = <<t>>]
StartDownload(tm, t) == [tm EXCEPT !.DownloadStart = <<t>>]
EndDownload(tm, t) == [tm EXCEPT !.DownloadEnd = <<t>>]

\* one optional phase of ToTimingInfo: present iff both ends were recorded
Phase(start, end) == IF start # Empty /\ end # Empty THEN <<end[1] - start[1]>> ELSE Empty

\* DetailedTiming.ToTimingInfo, rendered at time t
ToTimingInfo(tm, t) ==
        [Total |-> (IF tm.DownloadEnd # Empty THEN tm.DownloadEnd[1] ELSE t)
                   - tm.TotalStart,
         DNS |-> Phase(tm.DNSStart, tm.DNSEnd),
         TCP |-> Phase(tm.TCPStart, tm.TCPEnd),
         TLS |-> Phase(tm.TLSStart, tm.TLSEnd),
         TTFB |-> Phase(tm.RequestStart, tm.TTFB),
         Download |-> Phase(tm.DownloadStart, tm.DownloadEnd),
         Blocked |-> <<0>>]

(***************************************************************************)
(* Responses and errors (executor.go, the types part).                     *)
(***************************************************************************)
\* a ProxyResponse: Data and Error are pointers, Empty when nil; the message
\* of an ErrorData is left out
NoResponse == [success |-> FALSE, data |-> Empty, error |-> Empty]

NewSuccessResponse(data) == [success |-> TRUE, data |-> <<data>>, error |-> Empty]

\* an error response that keeps a ResponseData (what C23 rules out)
NewPartialResponse(code) ==
    [success |-> FALSE, data |-> <<[Status |-> 0]>>, error |-> <<[code |-> code]>>]

NewErrorResponse(code) ==
    [success |-> FALSE, data |-> Empty, error |-> <<[code |-> code]>>]

(***************************************************************************)
(* The remote side.  A server answers the k-th exchange of an execution    *)
(* with the redirects of its cycle for the first n exchanges and with its  *)
(* final response afterwards.  A response has a status, a Location header  *)
(* (Empty when absent or empty), a content-encoding, the values of its     *)
(* Content-Type header (Empty when the header is absent) and the bytes of  *)
(* its body as they come off the wire.  A byte is a number in 0..255.      *)
(***************************************************************************)
Response(status, location, encoding, body) ==
    [status |-> status, location |-> location, contentEncoding |-> encoding,
     contentType |-> Empty, body |-> body]

NoExchange == Response(0, Empty, "", Empty)

Respond(srv, k) ==
    IF k <= srv.n
    THEN Response(srv.cycle[((k - 1) % Len(srv.cycle)) + 1].status,
                  srv.cycle[((k - 1) % Len(srv.cycle)) + 1].location, "", Empty)
    ELSE srv.final

(***************************************************************************)
(* infra.ResolveDNS (dns.go).                                              *)
(***************************************************************************)
\* strings.Split(s, sep) for a one-character sep
RECURSIVE Split(_, _)
Split(s, sep) ==
    IF IndexOf(s, sep) = 0 THEN <<s>>
    ELSE <<UpTo(s, IndexOf(s, sep) - 1)>> \o Split(From(s, IndexOf(s, sep)), sep)

\* strings.Join(parts, sep)
RECURSIVE Join(_, _)
Join(parts, sep) ==
    IF parts = Empty THEN Empty
    ELSE IF Len(parts) = 1 THEN parts[1]
    ELSE parts[1] \o sep \o Join(Tail(parts), sep)

HexDigits == <<"0", "1", "2", "3", "4", "5", "6", "7", "8", "9",
               "a", "b", "c", "d", "e", "f">>

HexDigit == {HexDigits[i] : i \in 1..Len(HexDigits)}

\* the value of one digit
DigitValue(c) == (CHOOSE i \in 1..Len(HexDigits) : HexDigits[i] = c) - 1

\* the value of a digit string in the given base
RECURSIVE Value(_, _)
Value(f, base) ==
    IF f = Empty THEN 0
    ELSE Value(UpTo(f, Len(f) - 1), base) * base + DigitValue(f[Len(f)])

\* the digits of n in the given base, without leading zeros
RECURSIVE Digits(_, _)
Digits(n, base) ==
    IF n < base THEN <<HexDigits[n + 1]>>
    ELSE Digits(n \div base, base) \o <<HexDigits[(n % base) + 1]>>

\* one field of a dotted quad: 1 to 3 digits, no leading zero, at most 255
ValidDecField(f) ==
    /\ Len(f) \in 1..3
    /\ \A i \in 1..Len(f) : f[i] \in Digit
    /\ Len(f) > 1 => f[1] # "0"
    /\ Value(f, 10) <= 255

\* one group of a colon-hex literal: 1 to 4 hex digits
ValidHexGroup(g) ==
    /\ Len(g) \in 1..4
    /\ \A i \in 1..Len(g) : g[i] \in HexDigit

\* a net.IP after To4: the 4 bytes of an IPv4 address or the 8 groups of an
\* IPv6 address
NoIP == [ok |-> FALSE, v4 |-> FALSE, parts |-> Empty]

IPv4(bytes) == [ok |-> TRUE, v4 |-> TRUE, parts |-> bytes]

\* an address of 8 groups; ::ffff:a.b.c.d is the IPv4 address a.b.c.d
IPv6(groups) ==
    IF SubSeq(groups, 1, 6) = <<0, 0, 0, 0, 0, 65535>>
    THEN IPv4(<<groups[7] \div 256, groups[7] % 256,
                groups[8] \div 256, groups[8] % 256>>)
    ELSE [ok |-> TRUE, v4 |-> FALSE, parts |-> groups]

\* net.parseIPv4 on the fields between the dots
ParseIPv4(fields) ==
    IF Len(fields) = 4 /\ \A i \in 1..4 : ValidDecField(fields[i])
    THEN IPv4([i \in 1..4 |-> Value(fields[i], 10)])
    ELSE NoIP

\* the groups of one side of "::", none when the side is empty
Groups(side) == IF side = Empty THEN Empty ELSE Split(side, ":")

Zeros(n) == [i \in 1..n |-> 0]

\* net.parseIPv6 with the groups left and right of the ellipsis
ParseEllipsis(left, right) ==
    IF /\ Len(left) + Len(right) <= 7
       /\ \A i \in 1..Len(left) : ValidHexGroup(left[i])
       /\ \A i \in 1..Len(right) : ValidHexGroup(right[i])
    THEN IPv6([i \in 1..Len(left) |-> Value(left[i], 16)]
              \o Zeros(8 - Len(left) - Len(right))
              \o [i \in 1..Len(right) |-> Value(right[i], 16)])
    ELSE NoIP

\* the positions where s has "::"
Ellipses(s) == {i \in 1..(Len(s) - 1) : s[i] = ":" /\ s[i + 1] = ":"}

\* net.parseIPv6 without zone and without an embedded dotted quad
ParseIPv6(s) ==
    IF Ellipses(s) = {}
    THEN IF Len(Split(s, ":")) = 8 /\ \A i \in 1..8 : ValidHexGroup(Split(s, ":")[i])
         THEN IPv6([i \in 1..8 |-> Value(Split(s, ":")[i], 16)])
         ELSE NoIP
    ELSE IF Cardinality(Ellipses(s)) > 1 THEN NoIP
    ELSE ParseEllipsis(Groups(UpTo(s, (CHOOSE i \in Ellipses(s) : TRUE) - 1)),
                       Groups(From(s, (CHOOSE i \in Ellipses(s) : TRUE) + 1)))

\* net.ParseIP
ParseIP(s) ==
    IF IndexOf(s, ".") # 0 /\ IndexOf(s, ":") = 0 THEN ParseIPv4(Split(s, "."))
    ELSE IF IndexOf(s, ":") # 0 /\ IndexOf(s, ".") = 0 THEN ParseIPv6(s)
    ELSE NoIP

\* the number of zero groups from position i on
RECURSIVE ZeroRun(_, _)
ZeroRun(groups, i) ==
    IF i > Len(groups) THEN 0
    ELSE IF groups[i] # 0 THEN 0
    ELSE 1 + ZeroRun(groups, i + 1)

\* where IP.String puts "::": the first longest run of two or more zero
\* groups, 0 when there is none
EllipsisAt(groups) ==
    IF \E i \in 1..8 : ZeroRun(groups, i) >= 2
    THEN CHOOSE i \in 1..8 :
            /\ ZeroRun(groups, i) >= 2
            /\ \A j \in 1..8 : ZeroRun(groups, j) <= ZeroRun(groups, i)
            /\ \A j \in 1..(i - 1) : ZeroRun(groups, j) < ZeroRun(groups, i)
    ELSE 0

HexGroups(groups) == [i \in 1..Len(groups) |-> Digits(groups[i], 16)]

\* IP.String of an IPv6 address whose ellipsis starts at e
StringV6(groups, e) ==
    IF e = 0 THEN Join(HexGroups(groups), <<":">>)
    ELSE Join(HexGroups(SubSeq(groups, 1, e - 1)), <<":">>) \o <<":", ":">>
         \o Join(HexGroups(SubSeq(groups, e + ZeroRun(groups, e), 8)), <<":">>)

\* net.IP.String
IPString(ip) ==
    IF ip.v4 THEN Join([i \in 1..4 |-> Digits(ip.parts[i], 10)], <<".">>)
    ELSE StringV6(ip.parts, EllipsisAt(ip.parts))

\* every host is looked up, IP addresses too (what C14 rules out)
AlwaysLooksUp(host) == FALSE

\* ResolveDNS returns a host that is an IP address without a lookup
IsLiteralIP(host) == ParseIP(host).ok

\* what ExecuteRequest keeps of a DNSResult: serverIP and resolvedIPs
NoDNS == [serverIP |-> Empty, resolvedIPs |-> Empty]

DNSRecord(ips) ==
    [serverIP |-> IF Len(ips) > 0 THEN ips[1] ELSE Empty, resolvedIPs |-> ips]

(***************************************************************************)
(* The outbound request: method, body and header (net/http as far as the   *)
(* executor uses it).  A header name is a sequence of characters, a header *)
(* value is a string; a header map is a function from names to values.     *)
(***************************************************************************)
LowerCase == <<"a", "b", "c", "d", "e", "f", "g", "h", "i", "j", "k", "l", "m",
               "n", "o", "p", "q", "r", "s", "t", "u", "v", "w", "x", "y", "z">>
UpperCase == <<"A", "B", "C", "D", "E", "F", "G", "H", "I", "J", "K", "L", "M",
               "N", "O", "P", "Q", "R", "S", "T", "U", "V", "W", "X", "Y", "Z">>

ToUpper(c) ==
    IF \E i \in 1..26 : LowerCase[i] = c
    THEN UpperCase[CHOOSE i \in 1..26 : LowerCase[i] = c] ELSE c

ToLower(c) ==
    IF \E i \in 1..26 : UpperCase[i] = c
    THEN LowerCase[CHOOSE i \in 1..26 : UpperCase[i] = c] ELSE c

\* the characters of an HTTP token, as far as the alphabet has them
TokenChar ==
    {LowerCase[i] : i \in 1..26} \cup {UpperCase[i] : i \in 1..26} \cup Digit
      \cup {"-", ".", "+"}

\* net/http validMethod: a non-empty token
validMethod(method) ==
    method # Empty /\ \A i \in 1..Len(method) : method[i] \in TokenChar

MethodGET == <<"G", "E", "T">>

\* the request re-issued as a GET without body (what C18 rules out)
NewRequestAsGet(method, url, body) ==
    [method |-> MethodGET, url |-> url, body |-> Empty]

\* http.NewRequest(request.Method, ctx.url, bodyReader), the reader being a
\* new strings.Reader over the whole of *request.Body (lines 258-263); an
\* empty method means GET
NewRequest(method, url, body) ==
    [method |-> IF method = Empty THEN MethodGET ELSE method, url |-> url,
     body |-> body]

\* textproto.CanonicalMIMEHeaderKey: a name of token characters gets an
\* upper-case letter first and after each "-" and lower-case letters
\* elsewhere; any other name is left as it is
CanonicalMIMEHeaderKey(key) ==
    IF \A i \in 1..Len(key) : key[i] \in TokenChar
    THEN [i \in 1..Len(key) |->
             IF i = 1 THEN ToUpper(key[i])
             ELSE IF key[i - 1] = "-" THEN ToUpper(key[i])
             ELSE ToLower(key[i])]
    ELSE key

AcceptEncoding ==
    <<"A", "c", "c", "e", "p", "t", "-", "E", "n", "c", "o", "d", "i", "n", "g">>

DefaultAcceptEncoding == "gzip, deflate, br"

NoHeaders == << >>

\* Header.Get: the value stored under the canonical form of key, "" if none
Get(h, key) ==
    IF CanonicalMIMEHeaderKey(key) \in DOMAIN h
    THEN h[CanonicalMIMEHeaderKey(key)] ELSE ""

\* Header.Set on a map whose keys are canonical
SetCanonical(h, key, value) ==
    [n \in DOMAIN h \cup {key} |-> IF n = key THEN value ELSE h[n]]

\* Header.Set
Set(h, key, value) == SetCanonical(h, CanonicalMIMEHeaderKey(key), value)

\* lines 269-271: every entry of request.Headers is Set, in the order of
\* the map iteration, which Go leaves unspecified: of the entries whose
\* names have the same canonical form any one may be the last and stay
SetHeaders(headers) ==
    {h \in [{CanonicalMIMEHeaderKey(k) : k \in DOMAIN headers}
              -> {headers[k] : k \in DOMAIN headers}] :
        \A n \in DOMAIN h :
            \E k \in DOMAIN headers :
                CanonicalMIMEHeaderKey(k) = n /\ headers[k] = h[n]}

\* lines 273-276: "Add accept-encoding if not set"
AddAcceptEncoding(h) ==
    IF Get(h, AcceptEncoding) = ""
    THEN Set(h, AcceptEncoding, DefaultAcceptEncoding) ELSE h

\* httpReq of one hop: the request of lines 263-276 with header h
WithHeader(req, h) ==
    [method |-> req.method, url |-> req.url, body |-> req.body, header |-> h]

NoRequest == [method |-> Empty, url |-> Empty, body |-> Empty, header |-> NoHeaders]

(***************************************************************************)
(* The redirect loop of ExecuteRequest (executor.go).                      *)
(***************************************************************************)
\* timeoutMS: request.Timeout when given, DefaultTimeoutMS otherwise
TimeoutMS(req) == IF req.Timeout = Empty THEN DefaultTimeoutMS ELSE req.Timeout[1]

\* the deadline http.Client{Timeout} puts on one client.Do, body read
\* included; a zero Timeout means no deadline
Deadline(req, start) ==
    IF TimeoutMS(req) = 0 THEN Empty ELSE <<start + TimeoutMS(req)>>

\* the redirect check without the test of Location (what C5 rules out)
IsRedirectByStatus(r) == r.status >= 300 /\ r.status < 400

\* "Check for redirect": resp.StatusCode in [300,400) and Location != ""
IsRedirect(r) == r.status >= 300 /\ r.status < 400 /\ r.location # Empty

\* the hop cap compared with > instead of >= (what C2 rules out)
HopCapExceeded(chain) == Len(chain) > MaxRedirects

\* a loop without the hop cap (what C28 rules out)
NoHopCap(chain) == FALSE

\* the hop cap: len(redirectChain) >= MaxRedirects
HopCapReached(chain) == Len(chain) >= MaxRedirects

RedirectTo == <<"Redirect to: ">>

\* a hop recorded with the URL after the context advanced (what C7 rules out)
RedirectHopAfter(currentURL, status, duration, nextURL) ==
    [URL |-> nextURL, Status |-> status, Duration |-> duration,
     Message |-> RedirectTo \o nextURL]

\* the RedirectHop appended for a redirect (its header snapshot is left out)
RedirectHop(currentURL, status, duration, nextURL) ==
    [URL |-> currentURL, Status |-> status, Duration |-> duration,
     Message |-> RedirectTo \o nextURL]

\* the connection state of a completed handshake with ServerName host: the
\* peer certificate is the one the remote side presents for that name
ConnectionState(srv, host) == [subject |-> host, issuer |-> srv.cert]

\* infra.ExtractCertInfo (tls.go): never nil for a completed handshake
ExtractCertInfo(state) == <<[Subject |-> state.subject, Issuer |-> state.issuer]>>

\* the TLS state captured on every handshake (what C11 rules out)
CaptureTLSAlways(first, info, state) == ExtractCertInfo(state)

\* lines 239-243: tlsInfo is assigned only while isFirstRequest holds
CaptureTLS(first, info, state) == IF first THEN ExtractCertInfo(state) ELSE info

\* crypto/tls verifies the peer certificate (InsecureSkipVerify is false in
\* TLSClientConfig and unset in the tls.Config of DialTLSContext)
Verifies(srv, host) == srv.trusted

\* transport.RoundTrip refuses a request whose scheme is not http or https,
\* or whose URL has no host
Refuses(u) == u.Scheme \notin {HTTP, HTTPS} \/ u.Host = Empty

RoundTripRefuses(url) == Refuses(Parse(url))

\* headers[strings.ToLower(key)] = values[0] (lines 301-306), read back as
\* params.headers[key]: the first value of the header, "" when it is absent
FirstValue(values) == IF Len(values) > 0 THEN values[1] ELSE Empty

\* strings.ToLower
Lower(s) == [i \in 1..Len(s) |-> ToLower(s[i])]

\* strings.Contains
Contains(s, sub) ==
    \E i \in 0..(Len(s) - Len(sub)) : SubSeq(s, i + 1, i + Len(sub)) = sub

\* the textTypes of isBinaryContent
textTypes ==
    {<<"t", "e", "x", "t", "/">>,
     <<"a", "p", "p", "l", "i", "c", "a", "t", "i", "o", "n", "/", "j", "s", "o", "n">>,
     <<"a", "p", "p", "l", "i", "c", "a", "t", "i", "o", "n", "/", "x", "m", "l">>,
     <<"a", "p", "p", "l", "i", "c", "a", "t", "i", "o", "n", "/",
       "j", "a", "v", "a", "s", "c", "r", "i", "p", "t">>,
     <<"a", "p", "p", "l", "i", "c", "a", "t", "i", "o", "n", "/", "x", "-",
       "j", "a", "v", "a", "s", "c", "r", "i", "p", "t">>,
     <<"a", "p", "p", "l", "i", "c", "a", "t", "i", "o", "n", "/",
       "e", "c", "m", "a", "s", "c", "r", "i", "p", "t">>,
     <<"a", "p", "p", "l", "i", "c", "a", "t", "i", "o", "n", "/", "x", "-",
       "w", "w", "w", "-", "f", "o", "r", "m", "-",
       "u", "r", "l", "e", "n", "c", "o", "d", "e", "d">>,
     <<"+", "j", "s", "o", "n">>,
     <<"+", "x", "m", "l">>}

\* isBinaryContent comparing the content-type as it was sent (what C21 rules
\* out)
isBinaryContentAsSent(contentType) ==
    contentType # Empty /\ \A t \in textTypes : ~Contains(contentType, t)

\* isBinaryContent (response_builder.go)
isBinaryContent(contentType) ==
    contentType # Empty /\ \A t \in textTypes : ~Contains(Lower(contentType), t)

\* the alphabet of base64.StdEncoding
encodeStd ==
    UpperCase \o LowerCase
      \o <<"0", "1", "2", "3", "4", "5", "6", "7", "8", "9", "+", "/">>

\* base64.StdEncoding.EncodeToString: three bytes make four characters, the
\* last group is padded with "="
RECURSIVE EncodeToString(_)
EncodeToString(src) ==
    IF Len(src) = 0 THEN Empty
    ELSE IF Len(src) = 1
    THEN <<encodeStd[(src[1] \div 4) + 1],
           encodeStd[((src[1] % 4) * 16) + 1], "=", "=">>
    ELSE IF Len(src) = 2
    THEN <<encodeStd[(src[1] \div 4) + 1],
           encodeStd[((src[1] % 4) * 16) + (src[2] \div 16) + 1],
           encodeStd[((src[2] % 16) * 4) + 1], "=">>
    ELSE <<encodeStd[(src[1] \div 4) + 1],
           encodeStd[((src[1] % 4) * 16) + (src[2] \div 16) + 1],
           encodeStd[((src[2] % 16) * 4) + (src[3] \div 64) + 1],
           encodeStd[(src[3] % 64) + 1]>> \o EncodeToString(From(src, 3))

\* the compressed streams of the model: the first byte names the format, the
\* second gives the length of the stored data that follows
Magic(encoding) ==
    CASE encoding = "gzip" -> 31
      [] encoding = "deflate" -> 120
      [] encoding = "br" -> 11

\* decompressGzip, decompressDeflate, decompressBrotli (infra): the data of a
\* well-formed stream, an error otherwise
Inflate(data, magic) ==
    IF Len(data) >= 2 /\ data[1] = magic /\ data[2] = Len(data) - 2
    THEN [err |-> FALSE, Data |-> From(data, 2)]
    ELSE [err |-> TRUE, Data |-> Empty]

\* infra.Decompress: no or unknown encoding returns the data as it is
Decompress(data, encoding) ==
    IF encoding \in {"gzip", "deflate", "br"}
    THEN Inflate(data, Magic(encoding))
    ELSE [err |-> FALSE, Data |-> data]

\* infra.Decompress fails on a malformed gzip, deflate or br stream
DecompressFails(r) == Decompress(r.body, r.contentEncoding).err

\* compressed, uncompressed, encoding and compressionRatio of SizeBreakdown
\* (lines 92-103); the ratio compressedSize / bodySize is kept as the pair
\* of its terms; headerSize and total are left out
SizeBreakdown(contentEncoding, compressedSize, bodySize) ==
    IF contentEncoding # "" /\ bodySize > 0
    THEN [Body |-> bodySize, Compressed |-> <<compressedSize>>,
          Uncompressed |-> <<bodySize>>, Encoding |-> <<contentEncoding>>,
          CompressionRatio |-> <<<<compressedSize, bodySize>>>>]
    ELSE [Body |-> bodySize, Compressed |-> Empty, Uncompressed |-> Empty,
          Encoding |-> Empty, CompressionRatio |-> Empty]

\* the ResponseData of buildResponse, decompressed being the data of the
\* body and isBinary the verdict on its content-type
ResponseData(r, decompressed, isBinary, tm, c, chain, tls, d, t) ==
    [Status |-> r.status,
     Body |-> IF isBinary THEN Empty ELSE decompressed,
     BodyBase64 |-> IF isBinary THEN <<EncodeToString(decompressed)>> ELSE Empty,
     IsBinary |-> isBinary,
     Size |-> Len(decompressed),
     SizeBreakdown |-> SizeBreakdown(r.contentEncoding, Len(r.body),
                                     Len(decompressed)),
     Timing |-> ToTimingInfo(tm, t),
     URL |-> c.url,
     Redirected |-> Len(chain) > 0,
     RedirectChain |-> chain,
     TLS |-> tls,
     ServerIP |-> d.serverIP,
     Hostname |-> c.host,
     Port |-> c.port,
     ResolvedIPs |-> d.resolvedIPs]

\* buildResponse (response_builder.go), rendered at time t
\* the response reporting the addresses of the host of the last hop (what
\* C30 rules out)
buildResponseOfFinalHost(r, tm, c, chain, tls, d, t) ==
    IF DecompressFails(r) THEN NewErrorResponse("DECOMPRESSION_ERROR")
    ELSE NewSuccessResponse(
           ResponseData(r, Decompress(r.body, r.contentEncoding).Data,
                        isBinaryContent(FirstValue(r.contentType)),
                        tm, c, chain, tls,
                        DNSRecord(IF IsLiteralIP(c.host)
                                  THEN <<IPString(ParseIP(c.host))>>
                                  ELSE server.ips), t))

buildResponse(r, tm, c, chain, tls, d, t) ==
    IF DecompressFails(r) THEN NewErrorResponse("DECOMPRESSION_ERROR")
    ELSE NewSuccessResponse(
           ResponseData(r, Decompress(r.body, r.contentEncoding).Data,
                        isBinaryContent(FirstValue(r.contentType)),
                        tm, c, chain, tls, d, t))

(***************************************************************************)
(* Inputs: request URLs, Location values, server behaviours.               *)
(***************************************************************************)
IP1 == <<"1", ".", "1", ".", "1", ".", "1">>
IP2 == <<"1", ".", "1", ".", "1", ".", "2">>
IP6 == <<"0", ":", ":", "1">>

URLPlain == HTTP \o SchemeSep \o <<"a", "/">>                 \* http://a/
URLSecure == HTTPS \o SchemeSep \o <<"a", "/", "x">>          \* https://a/x
URLPort == HTTP \o SchemeSep \o <<"a", ":", "8", "1", "/">>   \* http://a:81/
URLFtp == <<"f", "t", "p">> \o SchemeSep \o <<"a", "/", "x">> \* ftp://a/x
URLNoScheme == <<"a", "/", "x">>                              \* a/x
URLBadPort == HTTP \o SchemeSep \o <<"a", ":", "x", "/">>     \* http://a:x/
URLNoHost == HTTP \o SchemeSep \o <<"/", "x">>                \* http:///x
URLIPv4 == HTTP \o SchemeSep \o IP1 \o <<"/">>                 \* http://1.1.1.1/
URLIPv6 == HTTPS \o SchemeSep \o <<"[">> \o IP6 \o <<"]", "/">> \* https://[0::1]/
URLBadIP == HTTP \o SchemeSep \o <<"1", ".", "1", "/">>       \* http://1.1/

LocRoot == <<"/", "b">>                                       \* /b
LocRelative == <<"b">>                                        \* b
LocSecure == HTTPS \o SchemeSep \o <<"b", "/", "c">>          \* https://b/c
LocPlain == HTTP \o SchemeSep \o <<"a", "/">>                 \* http://a/
LocBadPort == HTTP \o SchemeSep \o <<"a", ":", "x", "/">>     \* http://a:x/

Redirect(status, location) == [status |-> status, location |-> location]

CycleLoop == <<Redirect(302, LocRoot)>>
CycleMixed == <<Redirect(302, LocRelative), Redirect(301, LocSecure)>>
CycleSchemes == <<Redirect(307, LocSecure), Redirect(308, LocPlain)>>
CycleBad == <<Redirect(303, LocBadPort)>>
CycleStatuses ==
    <<Redirect(301, LocRoot), Redirect(302, LocRelative), Redirect(303, LocSecure),
      Redirect(307, LocPlain), Redirect(308, LocRoot)>>

\* a well-formed stream of the encoding that holds data
Stream(encoding, data) == <<Magic(encoding), Len(data)>> \o data

FinalOK == Response(200, Empty, "", Empty)
FinalNotModified == Response(304, Empty, "", Empty)
FinalNotFound == Response(404, LocRoot, "", Empty)
FinalGzip == Response(200, Empty, "gzip", Stream("gzip", <<104, 105>>))
FinalCorrupt == Response(200, Empty, "gzip", <<104, 105>>)


Server(n, cycle, final) ==
    [n |-> n, cycle |-> cycle, final |-> final, ips |-> <<IP1, IP2>>,
     cert |-> "cert", trusted |-> TRUE, keepAlive |-> TRUE]

\* the same remote side presenting a certificate that does not verify
Untrusted(srv) == [srv EXCEPT !.trusted = FALSE]

MethodPOST == <<"P", "O", "S", "T">>
MethodLower == <<"p", "u", "t">>
MethodBad == <<"G", " ", "T">>

BodyXY == <<"x", "y">>

\* a map with the one entry name: value
Header(name, value) == [n \in {name} |-> value]

\* the names of h in lower case
Lowered(name) == [i \in 1..Len(name) |-> ToLower(name[i])]
Raised(name) == [i \in 1..Len(name) |-> ToUpper(name[i])]

XA == <<"x", "-", "a">>

\* the union of two maps with different names
Both(h1, h2) ==
    [n \in DOMAIN h1 \cup DOMAIN h2 |-> IF n \in DOMAIN h1 THEN h1[n] ELSE h2[n]]

Authorization ==
    <<"A", "u", "t", "h", "o", "r", "i", "z", "a", "t", "i", "o", "n">>

\* a caller that sends a credential
Credentials == Both(Header(Authorization, "secret"), Header(XA, "1"))

HeaderMaps ==
    {NoHeaders,
     Credentials,
     Header(AcceptEncoding, "identity"),
     Header(Lowered(AcceptEncoding), "identity"),
     Header(AcceptEncoding, ""),
     Header(XA, "1"),
     Both(Header(XA, "1"), Header(Raised(AcceptEncoding), "br")),
     Both(Header(Lowered(AcceptEncoding), "identity"), Header(AcceptEncoding, "br")),
     Both(Header(Lowered(AcceptEncoding), ""), Header(AcceptEncoding, "br"))}

\* a GET without headers and body
Scenario(url, timeout, srv, lat) ==
    [Method |-> MethodGET, URL |-> url, Headers |-> NoHeaders, Body |-> Empty,
     Timeout |-> timeout, server |-> srv, latency |-> lat, caller |-> "patient"]

\* the same scenario with a caller that may cancel while it waits
Impatient(sc) == [sc EXCEPT !.caller = "impatient"]

\* the same scenario with another method, header map and body
WithRequest(sc, method, headers, body) ==
    [sc EXCEPT !.Method = method, !.Headers = headers, !.Body = body]

\* long redirect chains, every step within the same millisecond
DeepScenarios ==
    {Scenario(URLPlain, Empty, Server(n, cycle, final), 0) :
        n \in 0..(MaxRedirects + 1),
        cycle \in {CycleLoop, CycleMixed, CycleSchemes},
        final \in {FinalOK, FinalNotModified, FinalNotFound}}

\* every kind of request URL
URLScenarios ==
    {Scenario(url, Empty, Server(n, cycle, FinalOK), 0) :
        url \in {URLPlain, URLSecure, URLPort, URLFtp, URLNoScheme, URLBadPort,
                 URLNoHost},
        n \in 0..1,
        cycle \in {CycleLoop, CycleBad}}

\* short chains with time passing and with timeouts
TimedScenarios ==
    {Scenario(url, timeout, Server(n, CycleSchemes, final), lat) :
        url \in {URLPlain, URLSecure},
        timeout \in {Empty} \cup {<<t>> : t \in 0..MaxTimeout},
        n \in 0..MaxTimedRedirects,
        final \in {FinalOK, FinalGzip, FinalCorrupt},
        lat \in 1..MaxStep}

\* the remote side answers every response with Connection: close
ConnectionClose(srv) == [srv EXCEPT !.keepAlive = FALSE]

\* the same remote side behind a name that has no address
Unresolvable(srv) == [srv EXCEPT !.ips = Empty]

\* certificates that do not verify, on the first hop and on a later one
TLSScenarios ==
    {Scenario(url, Empty, Untrusted(Server(n, CycleSchemes, FinalOK)), 0) :
        url \in {URLPlain, URLSecure},
        n \in 0..1}

\* hosts that are IP addresses, names without an address, and a redirect
\* from an address to a name
DNSScenarios ==
    {Scenario(url, Empty, srv, lat) :
        url \in {URLPlain, URLIPv4, URLIPv6, URLBadIP},
        srv \in {Server(n, CycleSchemes, FinalOK) : n \in 0..1}
                \cup {Unresolvable(Server(n, CycleSchemes, FinalOK)) : n \in 0..1}
                \cup {ConnectionClose(Server(n, CycleLoop, FinalOK)) : n \in 0..1},
        lat \in 0..1}

\* methods, bodies and header maps, over every redirect status
RequestScenarios ==
    {WithRequest(Scenario(URLPlain, Empty, Server(n, CycleStatuses, FinalOK), 0),
                 mb[1], headers, mb[2]) :
        n \in {0, 2, MaxRequestRedirects},
        mb \in {<<MethodGET, Empty>>, <<MethodPOST, <<BodyXY>>>>,
                <<MethodPOST, <<Empty>>>>, <<Empty, Empty>>,
                <<MethodLower, <<BodyXY>>>>, <<MethodBad, Empty>>},
        headers \in HeaderMaps}

\* callers that cancel: at any suspension point of up to three hops, with
\* and without time passing
CancelScenarios ==
    {Impatient(Scenario(url, timeout, Server(n, CycleSchemes, FinalOK), lat)) :
        url \in {URLPlain, URLSecure},
        timeout \in {Empty, <<1>>},
        n \in 0..2,
        lat \in 0..1}

\* the same response with the values of its Content-Type header
Typed(r, values) == [r EXCEPT !.contentType = values]

Application == <<"a", "p", "p", "l", "i", "c", "a", "t", "i", "o", "n", "/">>
TextHTML == <<"t", "e", "x", "t", "/", "h", "t", "m", "l">>     \* text/html
TextNoSlash == <<"t", "e", "x", "t">>                           \* text
ImagePNG == <<"i", "m", "a", "g", "e", "/", "p", "n", "g">>     \* image/png
ImageSVG == <<"i", "m", "a", "g", "e", "/", "s", "v", "g", "+", "x", "m", "l">>
                                                              \* image/svg+xml
AppJSON == Application \o <<"j", "s", "o", "n">>         \* application/json
AppLdJSON == Application \o <<"l", "d", "+", "J", "S", "O", "N">>
                                                      \* application/ld+JSON
AppOctet == Application \o <<"o", "c", "t", "e", "t">>  \* application/octet

\* the Content-Type headers of the final responses: absent, empty, one
\* value, two values
ContentTypes ==
    {Empty, <<Empty>>, <<TextHTML>>, <<Raised(TextHTML)>>, <<TextNoSlash>>,
     <<ImagePNG>>, <<ImageSVG>>, <<AppJSON>>, <<AppLdJSON>>, <<AppOctet>>,
     <<ImagePNG, TextHTML>>, <<TextHTML, ImagePNG>>}

\* the data of the final responses
Payloads == {Empty, <<104>>, <<104, 105>>, <<0, 16, 131>>, <<255, 254, 253, 252>>}

\* what the wire carries for data under a content-encoding: a well-formed
\* stream of a known encoding or the data themselves
Bodies(encoding, data) ==
    IF encoding \in {"gzip", "deflate", "br"}
    THEN {Stream(encoding, data), data} ELSE {data}

ContentEncodings == {"", "gzip", "deflate", "br", "identity", "GZIP"}

\* final responses with a body, directly and after a redirect
BodyScenarios ==
    {Scenario(URLPlain, Empty,
              Server(n, CycleLoop,
                     Typed(Response(200, Empty, eb[1], eb[2]), values)), 0) :
        n \in 0..1,
        eb \in UNION {{<<encoding, body>> : body \in Bodies(encoding, data)} :
                         encoding \in ContentEncodings, data \in Payloads},
        values \in ContentTypes}

Scenarios ==
    DeepScenarios \cup URLScenarios \cup TimedScenarios \cup TLSScenarios
      \cup DNSScenarios \cup RequestScenarios \cup CancelScenarios
      \cup BodyScenarios

(***************************************************************************)
(* The execution.                                                          *)
(***************************************************************************)
Init ==
    \E sc \in Scenarios :
        /\ request = [Method |-> sc.Method, URL |-> sc.URL, Headers |-> sc.Headers,
                      Body |-> sc.Body, Timeout |-> sc.Timeout]
        /\ server = sc.server
        /\ latency = sc.latency
        /\ caller = sc.caller
        /\ now = 0
        /\ pc = "start"
        /\ ctx = NoContext
        /\ timing = NewDetailedTiming(0)
        /\ dns = NoDNS
        /\ redirectChain = Empty
        /\ tlsInfo = Empty
        /\ isFirstRequest = TRUE
        /\ hop = [hopStart |-> 0, deadline |-> Empty, url |-> Empty,
                  req |-> NoRequest]
        /\ resp = NoExchange
        /\ exchanges = Empty
        /\ sockets = Empty
        /\ result = NoResponse
        /\ peer = Empty
        /\ db = {}
        /\ calls = Empty

\* the connection of the current hop after an error of the transport or
\* conn.Close() (line 236): it is closed
Closed(socks) == [socks EXCEPT ![Len(socks)] = "closed"]

\* the connection of the current hop after io.ReadAll reached the end of the
\* body and resp.Body.Close(): the transport of the hop, which is not told to
\* close its connections (no DisableKeepAlives, no IdleConnTimeout, no
\* CloseIdleConnections), keeps a reusable connection in its idle pool
Released(socks, srv) ==
    [socks EXCEPT ![Len(socks)] = IF srv.keepAlive THEN "idle" ELSE "closed"]

\* the durations a network step can take from the current state
Steps == {d \in 0..latency : now + d <= MaxTime}

\* the deadline of the current client.Do passes before a step of length d ends
Expired(d) == hop.deadline # Empty /\ now + d > hop.deadline[1]

\* return res
Return(res) == pc' = "done" /\ result' = res

\* ExecuteRequest from NewDetailedTiming to StartDNS (lines 144-159), c being
\* the outcome of newRequestContext
Started(c) ==
    IF c.err
    THEN /\ timing' = NewDetailedTiming(now)
         /\ Return(NewErrorResponse("INVALID_URL"))
         /\ UNCHANGED ctx
    ELSE /\ ctx' = c.ctx
         /\ timing' = StartDNS(NewDetailedTiming(now), now)
         /\ pc' = "dns"
         /\ UNCHANGED result

Start ==
    /\ pc = "start"
    /\ Started(newRequestContext(request.URL))
    /\ UNCHANGED <<db, calls, peer, request, server, latency, caller,
                   now, dns, redirectChain, tlsInfo,
                   isFirstRequest, hop, resp, exchanges, sockets>>

\* infra.ResolveDNS and lines 161-191 of ExecuteRequest
ResolveDNS ==
    /\ pc = "dns"
    /\ \E d \in Steps :
        /\ IsLiteralIP(ctx.host) => d = 0
        /\ now' = now + d
        /\ \/ /\ IsLiteralIP(ctx.host) \/ Len(server.ips) > 0
              /\ dns' = DNSRecord(IF IsLiteralIP(ctx.host)
                                  THEN <<IPString(ParseIP(ctx.host))>>
                                  ELSE server.ips)
              /\ timing' = EndDNS(timing, now + d)
              /\ isFirstRequest' = TRUE
              /\ redirectChain' = Empty
              /\ tlsInfo' = Empty
              /\ pc' = "hop"
              /\ UNCHANGED result
           \/ /\ ~IsLiteralIP(ctx.host)
              /\ Return(NewErrorResponse("DNS_ERROR"))
              /\ UNCHANGED <<dns, timing, isFirstRequest, redirectChain, tlsInfo>>
    /\ UNCHANGED <<db, calls, peer, request, server, latency, caller,
                   ctx, hop, resp, exchanges, sockets>>

\* the head of one loop iteration: hopStart, http.NewRequest, StartRequest,
\* and the entry of client.Do (lines 194-283)
BeginHop ==
    /\ pc = "hop"
    /\ IF Parse(ctx.url).err \/ ~validMethod(NewRequest(request.Method, ctx.url,
                                                        request.Body).method)
       THEN /\ Return(NewErrorResponse("REQUEST_BUILD_ERROR"))
            /\ UNCHANGED <<timing, hop>>
       ELSE /\ timing' = IF isFirstRequest THEN StartRequest(timing, now) ELSE timing
            /\ \E h \in SetHeaders(request.Headers) :
                  hop' = [hopStart |-> now, deadline |-> Deadline(request, now),
                          url |-> ctx.url,
                          req |-> WithHeader(NewRequest(request.Method, ctx.url,
                                                        request.Body),
                                             AddAcceptEncoding(h))]
            /\ IF RoundTripRefuses(ctx.url)
               THEN Return(NewErrorResponse("REQUEST_FAILED"))
               ELSE pc' = "dial" /\ UNCHANGED result
    /\ UNCHANGED <<db, calls, peer, request, server, latency, caller,
                   now, ctx, dns, redirectChain,
                   tlsInfo, isFirstRequest, resp, exchanges, sockets>>

\* whether the transport wraps the connection of the current request in TLS
UsesTLS == Parse(hop.url).Scheme = HTTPS

\* DialContext / the dial of DialTLSContext (lines 198-230)
\* net.Dialer.DialContext is given the address that net/http takes from the
\* URL of the request (url.Hostname, url.Port) and resolves its host itself:
\* a literal is its own address, any other host is looked up, and no
\* resolver has an answer for a host with a ":" in it
Dialable(host) ==
    IsLiteralIP(host) \/ \A i \in 1..Len(host) : host[i] # ":"

Dial ==
    /\ pc = "dial"
    /\ \E d \in Steps :
        \/ /\ Expired(d)
           /\ now' = hop.deadline[1]
           /\ timing' = IF isFirstRequest THEN StartTCP(timing, now) ELSE timing
           /\ Return(NewErrorResponse("REQUEST_FAILED"))
           /\ UNCHANGED sockets
        \/ /\ ~Expired(d)
           /\ now' = now + d
           /\ timing' = IF isFirstRequest THEN StartTCP(timing, now) ELSE timing
           /\ Return(NewErrorResponse("REQUEST_FAILED"))
           /\ UNCHANGED sockets
        \/ /\ ~Expired(d)
           /\ Dialable(Hostname(Parse(hop.req.url)))
           /\ now' = now + d
           /\ timing' = IF ~isFirstRequest THEN timing
                        ELSE IF UsesTLS /\ ctx.isHTTPS
                        THEN StartTLS(EndTCP(StartTCP(timing, now), now + d), now + d)
                        ELSE EndTCP(StartTCP(timing, now), now + d)
           /\ sockets' = Append(sockets, "open")
           /\ pc' = IF UsesTLS THEN "tls" ELSE "send"
           /\ UNCHANGED result
    /\ UNCHANGED <<db, calls, peer, request, server, latency, caller,
                   ctx, dns, redirectChain, tlsInfo,
                   isFirstRequest, hop, resp, exchanges>>

\* tlsConn.HandshakeContext and the capture of the TLS state (lines 232-244)
Handshake ==
    /\ pc = "tls"
    /\ \E d \in Steps :
        \/ /\ Expired(d)
           /\ now' = hop.deadline[1]
           /\ Return(NewErrorResponse("REQUEST_FAILED"))
           /\ sockets' = Closed(sockets)
           /\ UNCHANGED <<timing, tlsInfo>>
        \/ /\ ~Expired(d)
           /\ now' = now + d
           /\ Return(NewErrorResponse("REQUEST_FAILED"))
           /\ sockets' = Closed(sockets)
           /\ UNCHANGED <<timing, tlsInfo>>
        \/ /\ ~Expired(d)
           /\ Verifies(server, ctx.host)
           /\ now' = now + d
           /\ timing' = IF isFirstRequest /\ ctx.isHTTPS
                        THEN EndTLS(timing, now + d) ELSE timing
           /\ tlsInfo' = IF ctx.isHTTPS
                         THEN CaptureTLS(isFirstRequest, tlsInfo,
                                         ConnectionState(server, ctx.host))
                         ELSE tlsInfo
           /\ pc' = "send"
           /\ UNCHANGED <<result, sockets>>
    /\ UNCHANGED <<db, calls, peer, request, server, latency, caller,
                   ctx, dns, redirectChain,
                   isFirstRequest, hop, resp, exchanges>>

\* the response r to the current request arrives
Received(r) ==
    /\ resp' = r
    /\ exchanges' = Append(exchanges, [url |-> hop.url, status |-> r.status,
                                       location |-> r.location,
                                       request |-> hop.req])

\* the rest of client.Do: the request is sent and the response headers
\* arrive; MarkTTFB and StartDownload (lines 283-293)
Send ==
    /\ pc = "send"
    /\ \E d \in Steps :
        \/ /\ Expired(d)
           /\ now' = hop.deadline[1]
           /\ Return(NewErrorResponse("REQUEST_FAILED"))
           /\ sockets' = Closed(sockets)
           /\ UNCHANGED <<timing, resp, exchanges>>
        \/ /\ ~Expired(d)
           /\ now' = now + d
           /\ Return(NewErrorResponse("REQUEST_FAILED"))
           /\ sockets' = Closed(sockets)
           /\ UNCHANGED <<timing, resp, exchanges>>
        \/ /\ ~Expired(d)
           /\ now' = now + d
           /\ Received(Respond(server, Len(exchanges) + 1))
           /\ timing' = StartDownload(IF isFirstRequest
                                      THEN MarkTTFB(timing, now + d)
                                      ELSE timing, now + d)
           /\ pc' = "read"
           /\ UNCHANGED <<result, sockets>>
    /\ UNCHANGED <<db, calls, peer, request, server, latency, caller,
                   ctx, dns, redirectChain, tlsInfo,
                   isFirstRequest, hop>>

\* lines 327-332: the hop was appended; the cap ends the execution
Appended(c, chain) ==
    /\ ctx' = c
    /\ redirectChain' = chain
    /\ IF HopCapReached(chain)
       THEN /\ Return(NewErrorResponse("TOO_MANY_REDIRECTS"))
            /\ UNCHANGED isFirstRequest
       ELSE /\ isFirstRequest' = FALSE
            /\ pc' = "hop"
            /\ UNCHANGED result

\* lines 315-325: next is the outcome of updateFromRedirect at time t
FollowRedirect(next, t) ==
    Appended(next.ctx,
             Append(redirectChain,
                    RedirectHop(ctx.url, resp.status, t - hop.hopStart,
                                next.nextURL)))

\* io.ReadAll, EndDownload, the redirect check and buildResponse
\* (lines 294-353)
ReadBody ==
    /\ pc = "read"
    /\ \E d \in Steps :
        \/ /\ Expired(d)
           /\ now' = hop.deadline[1]
           /\ Return(NewErrorResponse("BODY_READ_ERROR"))
           /\ sockets' = Closed(sockets)
           /\ UNCHANGED <<timing, ctx, redirectChain, isFirstRequest>>
        \/ /\ ~Expired(d)
           /\ now' = now + d
           /\ Return(NewErrorResponse("BODY_READ_ERROR"))
           /\ sockets' = Closed(sockets)
           /\ UNCHANGED <<timing, ctx, redirectChain, isFirstRequest>>
        \/ /\ ~Expired(d)
           /\ now' = now + d
           /\ timing' = EndDownload(timing, now + d)
           /\ sockets' = Released(sockets, server)
           /\ IF IsRedirect(resp)
              THEN FollowRedirect(updateFromRedirect(ctx, resp.location), now + d)
              ELSE /\ Return(buildResponse(resp, EndDownload(timing, now + d), ctx,
                                           redirectChain, tlsInfo, dns, now + d))
                   /\ UNCHANGED <<ctx, redirectChain, isFirstRequest>>
    /\ UNCHANGED <<db, calls, peer, request, server, latency, caller,
                   dns, tlsInfo, hop, resp, exchanges>>

\* the suspension points of an execution
Suspended == pc \in {"dns", "dial", "tls", "send", "read"}

\* an impatient caller of ExecuteRequest cancels its context while the
\* execution is suspended; ExecuteRequest takes no context (App.ProxyRequest
\* passes none, the lookup runs under context.Background(), the request is
\* built without one), so nothing of the execution changes
Cancel ==
    /\ Suspended
    /\ caller = "impatient"
    /\ caller' = "cancelled"
    /\ UNCHANGED <<db, calls, peer, request, server, latency, now, pc, ctx, timing, dns,
                   redirectChain, tlsInfo, isFirstRequest, hop, resp, exchanges,
                   sockets, result>>

Next ==
    Start \/ ResolveDNS \/ BeginHop \/ Dial \/ Handshake \/ Send \/ ReadBody
      \/ Cancel

Spec == Init /\ [][Next]_vars

\* the executions whose end is in question: redirect cycles up to and
\* beyond the cap, certificates that do not verify, callers that cancel,
\* timeouts with time passing
LiveScenarios == DeepScenarios \cup TLSScenarios \cup CancelScenarios

InitLive ==
    \E sc \in LiveScenarios :
        /\ request = [Method |-> sc.Method, URL |-> sc.URL, Headers |-> sc.Headers,
                      Body |-> sc.Body, Timeout |-> sc.Timeout]
        /\ server = sc.server
        /\ latency = sc.latency
        /\ caller = sc.caller
        /\ now = 0
        /\ pc = "start"
        /\ ctx = NoContext
        /\ timing = NewDetailedTiming(0)
        /\ dns = NoDNS
        /\ redirectChain = Empty
        /\ tlsInfo = Empty
        /\ isFirstRequest = TRUE
        /\ hop = [hopStart |-> 0, deadline |-> Empty, url |-> Empty,
                  req |-> NoRequest]
        /\ resp = NoExchange
        /\ exchanges = Empty
        /\ sockets = Empty
        /\ result = NoResponse
        /\ peer = Empty
        /\ db = {}
        /\ calls = Empty

\* the execution under the condition that no network step stays pending for
\* ever: the lookup, the dial, the handshake, the exchange and the read each
\* complete or fail, and the statements between them run
SpecLive == InitLive /\ [][Next]_vars /\ WF_vars(Next)

(***************************************************************************)
(* Two executions in one process.  The parameter, the locals of            *)
(* ExecuteRequest and what its closures capture (timing, tlsInfo,          *)
(* isFirstRequest, ctx) belong to one call; the package has no variable.   *)
(* The scheduler may switch between the two executions at any point; the   *)
(* clock is the one thing they share, and it stands still here.            *)
(***************************************************************************)
\* what one call of ExecuteRequest owns
Locals ==
    [request |-> request, server |-> server, latency |-> latency,
     caller |-> caller, pc |-> pc, ctx |-> ctx, timing |-> timing, dns |-> dns,
     redirectChain |-> redirectChain, tlsInfo |-> tlsInfo,
     isFirstRequest |-> isFirstRequest, hop |-> hop, resp |-> resp,
     exchanges |-> exchanges, sockets |-> sockets, result |-> result]

\* the locals of a call that has not started
NewCall(sc) ==
    [request |-> [Method |-> sc.Method, URL |-> sc.URL, Headers |-> sc.Headers,
                  Body |-> sc.Body, Timeout |-> sc.Timeout],
     server |-> sc.server, latency |-> sc.latency, caller |-> sc.caller,
     pc |-> "start", ctx |-> NoContext, timing |-> NewDetailedTiming(0),
     dns |-> NoDNS, redirectChain |-> Empty, tlsInfo |-> Empty,
     isFirstRequest |-> TRUE,
     hop |-> [hopStart |-> 0, deadline |-> Empty, url |-> Empty, req |-> NoRequest],
     resp |-> NoExchange, exchanges |-> Empty, sockets |-> Empty,
     result |-> NoResponse]

\* the scheduler resumes a call whose first-request flag is a variable of
\* the package, shared by all calls (what C24 rules out)
ResumeSharingFlag(l) ==
    /\ request' = l.request
    /\ server' = l.server
    /\ latency' = l.latency
    /\ caller' = l.caller
    /\ pc' = l.pc
    /\ ctx' = l.ctx
    /\ timing' = l.timing
    /\ dns' = l.dns
    /\ redirectChain' = l.redirectChain
    /\ tlsInfo' = l.tlsInfo
    /\ isFirstRequest' = isFirstRequest
    /\ hop' = l.hop
    /\ resp' = l.resp
    /\ exchanges' = l.exchanges
    /\ sockets' = l.sockets
    /\ result' = l.result

\* the scheduler resumes the call that owns l
Resume(l) ==
    /\ request' = l.request
    /\ server' = l.server
    /\ latency' = l.latency
    /\ caller' = l.caller
    /\ pc' = l.pc
    /\ ctx' = l.ctx
    /\ timing' = l.timing
    /\ dns' = l.dns
    /\ redirectChain' = l.redirectChain
    /\ tlsInfo' = l.tlsInfo
    /\ isFirstRequest' = l.isFirstRequest
    /\ hop' = l.hop
    /\ resp' = l.resp
    /\ exchanges' = l.exchanges
    /\ sockets' = l.sockets
    /\ result' = l.result

\* the scheduler suspends the running execution and resumes the other one
Switch ==
    /\ peer # Empty
    /\ peer' = <<Locals>>
    /\ Resume(peer[1])
    /\ UNCHANGED <<now, db, calls>>

\* the calls that run side by side: http and https requests over up to
\* three hops
PairScenarios ==
    {Scenario(url, Empty, Server(n, CycleSchemes, FinalOK), 0) :
        url \in {URLPlain, URLSecure}, n \in 0..2}

InitPair ==
    \E sc \in PairScenarios, other \in PairScenarios :
        /\ request = NewCall(sc).request
        /\ server = sc.server
        /\ latency = sc.latency
        /\ caller = sc.caller
        /\ now = 0
        /\ pc = "start"
        /\ ctx = NoContext
        /\ timing = NewDetailedTiming(0)
        /\ dns = NoDNS
        /\ redirectChain = Empty
        /\ tlsInfo = Empty
        /\ isFirstRequest = TRUE
        /\ hop = NewCall(sc).hop
        /\ resp = NoExchange
        /\ exchanges = Empty
        /\ sockets = Empty
        /\ result = NoResponse
        /\ peer = <<NewCall(other)>>
        /\ db = {}
        /\ calls = Empty

NextPair ==
    Start \/ ResolveDNS \/ BeginHop \/ Dial \/ Handshake \/ Send \/ ReadBody
      \/ Switch

SpecPair == InitPair /\ [][NextPair]_vars

(***************************************************************************)
(* requestContext on its own: a context is constructed from a URL and      *)
(* updateFromRedirect is applied to it with one Location after another.    *)
(* ctx is the context, resp.location the Location applied last and hop.url *)
(* the URL updateFromRedirect returned.                                    *)
(***************************************************************************)
URLDeep == HTTP \o SchemeSep \o <<"a", "/", "d", "/", "x">>   \* http://a/d/x
URLQuery == HTTPS \o SchemeSep \o <<"a", ":", "4", "4", "3", "/", "x", "?", "q">>
                                                              \* https://a:443/x?q
URLOddPort == HTTP \o SchemeSep \o <<"a", ":", "4", "4", "3">> \* http://a:443

ContextURLs == {URLPlain, URLSecure, URLPort, URLIPv6, URLDeep, URLQuery, URLOddPort}

LocQuery == <<"/", "b", "?", "q">>                            \* /b?q
LocOnlyQuery == <<"?", "q">>                                  \* ?q
LocNetPath == <<"/", "/", "b", "/", "c">>                     \* //b/c
LocFtp == <<"f", "t", "p">> \o SchemeSep \o <<"b", "/">>      \* ftp://b/
LocDir == <<"e", "/", "f">>                                   \* e/f
LocSecurePort == HTTPS \o SchemeSep \o <<"b", ":", "4", "4", "3", "/", "c">>
                                                              \* https://b:443/c
LocOddPort == HTTP \o SchemeSep \o <<"b", ":", "4", "4", "3", "/">>
                                                              \* http://b:443/
LocNoPath == HTTPS \o SchemeSep \o <<"b">>                    \* https://b
LocNoPathQuery == HTTP \o SchemeSep \o <<"b", "?", "q">>      \* http://b?q
LocIPv6 == HTTP \o SchemeSep \o <<"[">> \o IP6 \o <<"]", ":", "8", "1", "/", "x">>
                                                              \* http://[0::1]:81/x
LocIPv6Default == HTTP \o SchemeSep \o <<"[">> \o IP6 \o <<"]", "/", "x">>
                                                              \* http://[0::1]/x

Locations ==
    {LocRoot, LocRelative, LocQuery, LocOnlyQuery, LocNetPath, LocFtp, LocDir,
     LocSecure, LocPlain, LocBadPort, LocSecurePort, LocOddPort, LocNoPath,
     LocNoPathQuery, LocIPv6, LocIPv6Default}

InitRedirect ==
    \E u \in ContextURLs :
        /\ request = [Method |-> MethodGET, URL |-> u, Headers |-> NoHeaders,
                      Body |-> Empty, Timeout |-> Empty]
        /\ server = Server(0, CycleLoop, FinalOK)
        /\ latency = 0
        /\ caller = "patient"
        /\ now = 0
        /\ pc = "redirect"
        /\ ctx = newRequestContext(u).ctx
        /\ timing = NewDetailedTiming(0)
        /\ dns = NoDNS
        /\ redirectChain = Empty
        /\ tlsInfo = Empty
        /\ isFirstRequest = TRUE
        /\ hop = [hopStart |-> 0, deadline |-> Empty, url |-> u, req |-> NoRequest]
        /\ resp = NoExchange
        /\ exchanges = Empty
        /\ sockets = Empty
        /\ result = NoResponse
        /\ peer = Empty
        /\ db = {}
        /\ calls = Empty

\* nextURL := ctx.updateFromRedirect(location)
ApplyRedirect ==
    /\ pc = "redirect"
    /\ \E location \in Locations :
        /\ resp' = [resp EXCEPT !.location = location]
        /\ ctx' = updateFromRedirect(ctx, location).ctx
        /\ hop' = [hop EXCEPT !.url = updateFromRedirect(ctx, location).nextURL]
    /\ UNCHANGED <<db, calls, peer, request, server, latency, caller, now, pc, timing, dns,
                   redirectChain, tlsInfo, isFirstRequest, exchanges, sockets,
                   result>>

NextRedirect == ApplyRedirect

SpecRedirect == InitRedirect /\ [][NextRedirect]_vars

(***************************************************************************)
(* The web deployment (cmd/web main and internal/static).  main registers  *)
(* one handler, static.Handler(), for every path.  Here server is the      *)
(* embedded file system (a function from file names to contents), hop.req  *)
(* the HTTP request that arrives, request the ProxyRequest in its body and *)
(* resp the HTTP response the handler writes.                              *)
(***************************************************************************)
\* strings.TrimPrefix
TrimPrefix(s, prefix) == IF HasPrefix(s, prefix) THEN From(s, Len(prefix)) ELSE s

\* a path without its trailing slashes
RECURSIVE TrimSlashes(_)
TrimSlashes(name) ==
    IF name # Empty /\ name[Len(name)] = "/"
    THEN TrimSlashes(UpTo(name, Len(name) - 1)) ELSE name

\* the text after the last slash
LastElement(name) == From(name, LastIndexOf(name, "/"))

\* path.Base
Base(name) ==
    IF name = Empty THEN <<".">>
    ELSE IF TrimSlashes(name) = Empty THEN <<"/">>
    ELSE LastElement(TrimSlashes(name))

\* path.Join(dir, name) for a non-empty dir without "." and ".." elements
JoinPath(dir, name) == TrimSlashes(dir) \o <<"/">> \o name

\* filepath.Ext: the suffix of the last element from its last dot
Ext(name) ==
    IF LastIndexOf(LastElement(name), ".") = 0 THEN Empty
    ELSE From(LastElement(name), LastIndexOf(LastElement(name), ".") - 1)

IndexHTML == <<"i", "n", "d", "e", "x", ".", "h", "t", "m", "l">>
DotHTML == <<".", "h", "t", "m", "l">>
CharsetUTF8 == <<";", " ", "c", "h", "a", "r", "s", "e", "t", "=", "u", "t", "f", "-", "8">>

\* mime.TypeByExtension, the built-in table as far as the files need it
TypeByExtension(ext) ==
    CASE Lower(ext) = DotHTML -> <<"t", "e", "x", "t", "/", "h", "t", "m", "l">> \o CharsetUTF8
      [] Lower(ext) = <<".", "j", "s">> ->
            <<"t", "e", "x", "t", "/", "j", "a", "v", "a", "s", "c", "r", "i", "p", "t">>
              \o CharsetUTF8
      [] Lower(ext) = <<".", "p", "n", "g">> ->
            <<"i", "m", "a", "g", "e", "/", "p", "n", "g">>
      [] OTHER -> Empty

\* staticHandler.serveContent: status 200, the MIME type of the extension
ServedType(mimeType, content) ==
    [status |-> 200, location |-> Empty, contentEncoding |-> "",
     contentType |-> <<IF mimeType = Empty
                       THEN <<"a", "p", "p", "l", "i", "c", "a", "t", "i", "o", "n", "/",
                              "o", "c", "t", "e", "t", "-", "s", "t", "r", "e", "a", "m">>
                       ELSE mimeType>>,
     body |-> content]

serveContent(filePath, content) == ServedType(TypeByExtension(Ext(filePath)), content)

\* http.NotFound: status 404 and the text "404 page not found"
NotFound ==
    [status |-> 404, location |-> Empty, contentEncoding |-> "",
     contentType |-> <<<<"t", "e", "x", "t", "/", "p", "l", "a", "i", "n">> \o CharsetUTF8>>,
     body |-> <<52, 48, 52, 32, 112, 97, 103, 101, 32, 110, 111, 116, 32,
                102, 111, 117, 110, 100, 10>>]

\* fs.ReadFile succeeds for the files of the file system
IsFile(fsys, name) == name \in DOMAIN fsys

\* staticHandler.ServeHTTP from line 34 on, urlPath being set
ServePath(fsys, urlPath) ==
    IF IsFile(fsys, urlPath) THEN serveContent(urlPath, fsys[urlPath])
    ELSE IF ~Contains(Base(urlPath), <<".">>) /\ IsFile(fsys, IndexHTML)
    THEN serveContent(IndexHTML, fsys[IndexHTML])
    ELSE IF IsFile(fsys, urlPath \o DotHTML)
    THEN serveContent(urlPath \o DotHTML, fsys[urlPath \o DotHTML])
    ELSE IF IsFile(fsys, JoinPath(urlPath, IndexHTML))
    THEN serveContent(JoinPath(urlPath, IndexHTML), fsys[JoinPath(urlPath, IndexHTML)])
    ELSE IF IsFile(fsys, IndexHTML)
    THEN serveContent(IndexHTML, fsys[IndexHTML])
    ELSE NotFound

\* staticHandler.ServeHTTP: the method and the body of r are not looked at
ServeHTTP(fsys, r) ==
    ServePath(fsys, IF TrimPrefix(r.url, Slash) = Empty
                    THEN IndexHTML ELSE TrimPrefix(r.url, Slash))

\* the files the frontend may consist of, with their contents
AppJS == <<"a", "p", "p", ".", "j", "s">>
LogoPNG == <<"l", "o", "g", "o", ".", "P", "N", "G">>
AboutHTML == <<"a", "b", "o", "u", "t", ".", "h", "t", "m", "l">>
DocsIndex == <<"d", "o", "c", "s", "/">> \o IndexHTML
License == <<"L", "I", "C", "E", "N", "S", "E">>

Frontend ==
    [name \in {IndexHTML, AppJS, LogoPNG, AboutHTML, DocsIndex, License} |->
        CASE name = IndexHTML -> <<60, 104, 62>>
          [] name = AppJS -> <<47, 47>>
          [] name = LogoPNG -> <<137, 80, 78, 71>>
          [] name = AboutHTML -> <<60, 97, 62>>
          [] name = DocsIndex -> <<60, 100, 62>>
          [] name = License -> <<77, 73, 84>>]

\* the file systems: every part of the frontend
FileSystems == {[name \in names |-> Frontend[name]] : names \in SUBSET DOMAIN Frontend}

PathProxy == <<"/", "a", "p", "i", "/", "p", "r", "o", "x", "y">>   \* /api/proxy

\* the paths of the requests that arrive
WebPaths ==
    {PathProxy, PathProxy \o Slash, Slash, Slash \o IndexHTML, Slash \o AppJS,
     Slash \o LogoPNG, <<"/", "a", "b", "o", "u", "t">>, <<"/", "d", "o", "c", "s">>,
     <<"/", "d", "o", "c", "s", "/">>, Slash \o License,
     <<"/", "x", ".", "j", "s">>}

InitWeb ==
    \E fsys \in FileSystems, method \in {MethodGET, MethodPOST}, urlPath \in WebPaths :
        /\ request = [Method |-> MethodGET, URL |-> URLPlain, Headers |-> NoHeaders,
                      Body |-> Empty, Timeout |-> Empty]
        /\ server = fsys
        /\ latency = 0
        /\ caller = "patient"
        /\ now = 0
        /\ pc = "serve"
        /\ ctx = NoContext
        /\ timing = NewDetailedTiming(0)
        /\ dns = NoDNS
        /\ redirectChain = Empty
        /\ tlsInfo = Empty
        /\ isFirstRequest = TRUE
        /\ hop = [hopStart |-> 0, deadline |-> Empty, url |-> Empty,
                  req |-> [method |-> method, url |-> urlPath, body |-> Empty,
                           header |-> NoHeaders]]
        /\ resp = NoExchange
        /\ exchanges = Empty
        /\ sockets = Empty
        /\ result = NoResponse
        /\ peer = Empty
        /\ db = {}
        /\ calls = Empty

\* the handler registered for "/" serves the request
Serve ==
    /\ pc = "serve"
    /\ resp' = ServeHTTP(server, hop.req)
    /\ pc' = "served"
    /\ UNCHANGED <<db, calls, peer, request, server, latency, caller, now, ctx, timing, dns,
                   redirectChain, tlsInfo, isFirstRequest, hop, exchanges, sockets,
                   result>>

NextWeb == Serve

SpecWeb == InitWeb /\ [][NextWeb]_vars

(***************************************************************************)
(* The storage Database (internal/storage/sqlite.go): one table storage    *)
(* with the columns store, key and value and the primary key (store, key). *)
(* A row is a record; a statement is an operator on the set of rows.       *)
(* Every method holds the mutex for its whole statement, and the           *)
(* statements of the model are the ones that succeed.                      *)
(***************************************************************************)
\* SELECT ... FROM storage WHERE store = ? AND key = ?
SelectRows(rows, store, key) == {r \in rows : r.store = store /\ r.key = key}

\* INSERT INTO storage ... ON CONFLICT(store, key) DO UPDATE SET value = ...
Upsert(rows, store, key, value) ==
    (rows \ SelectRows(rows, store, key))
      \cup {[store |-> store, key |-> key, value |-> value]}

\* DELETE FROM storage WHERE store = ? AND key = ?
DeleteRow(rows, store, key) == rows \ SelectRows(rows, store, key)

\* DELETE FROM storage without the key (what C26 rules out for Clear)
DeleteAll(rows, store) == {}

\* DELETE FROM storage WHERE store = ?
DeleteStore(rows, store) == {r \in rows : r.store # store}

\* Database.Get: a pointer to the value of the row, nil for sql.ErrNoRows
StorageGet(rows, store, key) ==
    IF SelectRows(rows, store, key) = {} THEN Empty
    ELSE <<(CHOOSE r \in SelectRows(rows, store, key) : TRUE).value>>

\* Database.Has
StorageHas(rows, store, key) == SelectRows(rows, store, key) # {}

\* Database.Keys: the keys of the rows of the store; their order is the one
\* the query happens to give
StorageKeys(rows, store) == {r.key : r \in {q \in rows : q.store = store}}

Stores == {"requests", "settings"}
Keys == {"", "k"}
Values == {"", "v"}

InitStore ==
    /\ request = [Method |-> MethodGET, URL |-> URLPlain, Headers |-> NoHeaders,
                  Body |-> Empty, Timeout |-> Empty]
    /\ server = Server(0, CycleLoop, FinalOK)
    /\ latency = 0
    /\ caller = "patient"
    /\ now = 0
    /\ pc = "storage"
    /\ ctx = NoContext
    /\ timing = NewDetailedTiming(0)
    /\ dns = NoDNS
    /\ redirectChain = Empty
    /\ tlsInfo = Empty
    /\ isFirstRequest = TRUE
    /\ hop = [hopStart |-> 0, deadline |-> Empty, url |-> Empty, req |-> NoRequest]
    /\ resp = NoExchange
    /\ exchanges = Empty
    /\ sockets = Empty
    /\ result = NoResponse
    /\ peer = Empty
    /\ db = {}
    /\ calls = Empty

\* Database.Set
StorageSet ==
    /\ pc = "storage"
    /\ Len(calls) < MaxCalls
    /\ \E store \in Stores, key \in Keys, value \in Values :
          /\ db' = Upsert(db, store, key, value)
          /\ calls' = Append(calls, [op |-> "Set", store |-> store, key |-> key,
                                      value |-> value])
    /\ UNCHANGED <<peer, request, server, latency, caller, now, pc, ctx, timing, dns,
                   redirectChain, tlsInfo, isFirstRequest, hop, resp, exchanges,
                   sockets, result>>

\* Database.Remove
StorageRemove ==
    /\ pc = "storage"
    /\ Len(calls) < MaxCalls
    /\ \E store \in Stores, key \in Keys :
          /\ db' = DeleteRow(db, store, key)
          /\ calls' = Append(calls, [op |-> "Remove", store |-> store, key |-> key,
                                      value |-> ""])
    /\ UNCHANGED <<peer, request, server, latency, caller, now, pc, ctx, timing, dns,
                   redirectChain, tlsInfo, isFirstRequest, hop, resp, exchanges,
                   sockets, result>>

\* Database.Clear
StorageClear ==
    /\ pc = "storage"
    /\ Len(calls) < MaxCalls
    /\ \E store \in Stores :
          /\ db' = DeleteStore(db, store)
          /\ calls' = Append(calls, [op |-> "Clear", store |-> store, key |-> "",
                                      value |-> ""])
    /\ UNCHANGED <<peer, request, server, latency, caller, now, pc, ctx, timing, dns,
                   redirectChain, tlsInfo, isFirstRequest, hop, resp, exchanges,
                   sockets, result>>

NextStore == StorageSet \/ StorageRemove \/ StorageClear

SpecStore == InitStore /\ [][NextStore]_vars

(***************************************************************************)
(* Vocabulary of the properties.                                           *)
(***************************************************************************)
Done == pc = "done"

Succeeded == pc = "done" /\ result.success

Failed(code) ==
    pc = "done" /\ ~result.success /\ result.error = <<[code |-> code]>>

\* the ResponseData of a successful result
Data == result.data[1]

\* a response that carries a 3xx status together with a non-empty Location
Is3xxWithLocation(x) == x.status \in 300..399 /\ x.location # Empty

\* the redirect check was made for the i-th response: it is not the response
\* whose body is still being read, or whose body could not be read
Decided(i) ==
    \/ i < Len(exchanges)
    \/ pc # "read" /\ ~Failed("BODY_READ_ERROR")

\* the number of responses received so far that are redirects to follow
RedirectsSeen ==
    Cardinality({i \in 1..Len(exchanges) : Is3xxWithLocation(exchanges[i])})

(***************************************************************************)
(* C1: every success has at most 20 hops in its chain, and                 *)
(* TOO_MANY_REDIRECTS is produced only when a 21st redirect is reached, so *)
(* that a target behind exactly 20 redirects is returned as a success.     *)
(* The code fails it: it gives up on the 20th redirect.                    *)
(***************************************************************************)
C1_HopCapOnSuccess ==
    /\ Succeeded => Len(Data.RedirectChain) <= MaxRedirects
    /\ Failed("TOO_MANY_REDIRECTS") => RedirectsSeen >= MaxRedirects + 1

(***************************************************************************)
(* C2: TOO_MANY_REDIRECTS is returned exactly when the chain reaches 20    *)
(* recorded hops, after exactly 20 exchanges that all were redirects: not  *)
(* earlier, and the chain never grows past 20 without the execution having *)
(* ended that way.                                                         *)
(***************************************************************************)
C2_TooManyAtTwenty ==
    /\ Failed("TOO_MANY_REDIRECTS") =>
          /\ Len(redirectChain) = MaxRedirects
          /\ Len(exchanges) = MaxRedirects
          /\ \A i \in 1..Len(exchanges) : Is3xxWithLocation(exchanges[i])
    /\ Len(redirectChain) >= MaxRedirects => Failed("TOO_MANY_REDIRECTS")
    /\ Succeeded => ~Is3xxWithLocation(exchanges[Len(exchanges)])

C2_Witness ==
    /\ Failed("TOO_MANY_REDIRECTS")
    /\ Len(exchanges) = MaxRedirects
    /\ server.n > MaxRedirects

(***************************************************************************)
(* C3: a request URL that does not parse, has no host, or has a scheme     *)
(* other than http and https is rejected with INVALID_URL before any DNS   *)
(* lookup or connection.  The code fails it for the scheme.                *)
(***************************************************************************)
Unacceptable(u) == u.err \/ u.Host = Empty \/ u.Scheme \notin {HTTP, HTTPS}

C3_InvalidURLRejected ==
    Unacceptable(Parse(request.URL)) =>
        /\ pc \in {"start", "done"}
        /\ timing.DNSStart = Empty
        /\ Done => result = NewErrorResponse("INVALID_URL")

(***************************************************************************)
(* C4: the timeout is one deadline for the whole execution: a running      *)
(* execution is never older than the timeout, and one that ended after the *)
(* deadline ended with TIMEOUT.  The code fails it: the timeout bounds     *)
(* each hop on its own, not the DNS lookup, and is reported as             *)
(* REQUEST_FAILED or BODY_READ_ERROR.                                      *)
(***************************************************************************)
Elapsed == now - timing.TotalStart

C4_EndToEndDeadline ==
    TimeoutMS(request) > 0 =>
        /\ pc \notin {"start", "done"} => Elapsed <= TimeoutMS(request)
        /\ Done /\ Elapsed > TimeoutMS(request) => Failed("TIMEOUT")

(***************************************************************************)
(* C5: a response is treated as a redirect iff its status is in [300,400)  *)
(* and it has a non-empty Location; so a success has the status of the     *)
(* last exchange, which is 3xx only when that exchange had no Location.    *)
(***************************************************************************)
C5_TerminalResponse ==
    /\ \A i \in 1..Len(exchanges) :
          Decided(i) =>
              (i <= Len(redirectChain)
                  <=> (exchanges[i].status \in 300..399
                         /\ exchanges[i].location # Empty))
    /\ \A i \in 1..(Len(exchanges) - 1) :
          exchanges[i].status \in 300..399 /\ exchanges[i].location # Empty
    /\ Succeeded =>
          /\ Data.Status = exchanges[Len(exchanges)].status
          /\ Data.Status \in 300..399 => exchanges[Len(exchanges)].location = Empty

C5_Witness ==
    /\ Succeeded
    /\ Data.Status \in 300..399
    /\ Len(redirectChain) > 0

(***************************************************************************)
(* C6: in a success the first hop of the chain has the input URL, every    *)
(* later hop has the URL the hop before it redirected to (the target of    *)
(* its "Redirect to:" message), every hop has the URL that was requested   *)
(* in its exchange, and response.url is the URL requested last.            *)
(***************************************************************************)
C6_ChainContinuity ==
    Succeeded =>
        /\ Len(Data.RedirectChain) > 0 => Data.RedirectChain[1].URL = request.URL
        /\ Len(Data.RedirectChain) = 0 => Data.URL = request.URL
        /\ \A i \in 1..(Len(Data.RedirectChain) - 1) :
              RedirectTo \o Data.RedirectChain[i + 1].URL
                 = Data.RedirectChain[i].Message
        /\ \A i \in 1..Len(Data.RedirectChain) :
              Data.RedirectChain[i].URL = exchanges[i].url
        /\ Len(Data.RedirectChain) > 0 =>
              RedirectTo \o Data.URL
                 = Data.RedirectChain[Len(Data.RedirectChain)].Message
        /\ Data.URL = exchanges[Len(exchanges)].url

C6_Witness ==
    /\ Succeeded
    /\ Len(Data.RedirectChain) >= 2
    /\ Data.URL # request.URL
    /\ Data.RedirectChain[2].URL # Data.RedirectChain[1].URL

(***************************************************************************)
(* C7 as stated: the chain has one entry per 3xx response observed.  It    *)
(* fails for a 3xx response without Location, which is returned as the     *)
(* final response and adds no entry.                                       *)
(***************************************************************************)
C7_OneHopPer3xxResponse ==
    Succeeded =>
        Len(Data.RedirectChain)
          = Cardinality({i \in 1..Len(exchanges) : exchanges[i].status \in 300..399})

(***************************************************************************)
(* C7 amended: the chain has one entry per 3xx response that carried a     *)
(* non-empty Location, in the order of the exchanges, each with the URL    *)
(* requested in that exchange and the status of its response; a success    *)
(* returns that chain and has redirected set iff the chain is non-empty.   *)
(***************************************************************************)
C7_OneHopPerRedirect ==
    /\ Len(redirectChain)
         = Cardinality({i \in 1..Len(exchanges) :
                           Decided(i) /\ Is3xxWithLocation(exchanges[i])})
    /\ \A i \in 1..Len(redirectChain) :
          /\ redirectChain[i].URL = exchanges[i].url
          /\ redirectChain[i].Status = exchanges[i].status
          /\ Is3xxWithLocation(exchanges[i])
    /\ Succeeded =>
          /\ Data.RedirectChain = redirectChain
          /\ Data.Redirected <=> Len(Data.RedirectChain) > 0

C7_Witness ==
    /\ Succeeded
    /\ Data.Redirected
    /\ Len(Data.RedirectChain) >= 2
    /\ Data.Status \in 300..399
    /\ Data.RedirectChain[1].Status # Data.RedirectChain[2].Status

(***************************************************************************)
(* C8: the recorded phase timestamps are ordered dnsStart <= dnsEnd <=     *)
(* tcpStart <= tcpEnd <= tlsStart <= tlsEnd <= requestStart <= ttfb <=     *)
(* downloadStart <= downloadEnd.  The code fails it: StartRequest is       *)
(* called before client.Do, inside which the connection is dialled.        *)
(***************************************************************************)
PhaseOrder(tm) ==
    <<tm.DNSStart, tm.DNSEnd, tm.TCPStart, tm.TCPEnd, tm.TLSStart, tm.TLSEnd,
      tm.RequestStart, tm.TTFB, tm.DownloadStart, tm.DownloadEnd>>

Monotonic(stamps) ==
    \A i \in 1..Len(stamps) : \A j \in (i + 1)..Len(stamps) :
        stamps[i] # Empty /\ stamps[j] # Empty => stamps[i][1] <= stamps[j][1]

C8_PhaseTimestampsOrdered == Monotonic(PhaseOrder(timing))

(***************************************************************************)
(* C9: in a rendered timing record dns + tcp + tls + ttfb + download <=    *)
(* total, absent phases counting 0.  The code fails it: ttfb is measured   *)
(* from before the dial and includes tcp and tls.                          *)
(***************************************************************************)
Millis(phase) == IF phase = Empty THEN 0 ELSE phase[1]

PhaseSum(info) ==
    Millis(info.DNS) + Millis(info.TCP) + Millis(info.TLS) + Millis(info.TTFB)
      + Millis(info.Download)

C9_PhasesWithinTotal == Succeeded => PhaseSum(Data.Timing) <= Data.Timing.Total

(***************************************************************************)
(* C10: once the first redirect has been followed no step changes a phase  *)
(* timestamp.  The code fails it: StartDownload and EndDownload are called *)
(* on every hop.                                                           *)
(***************************************************************************)
C10_PhasesOfFirstHopOnly == [][~isFirstRequest => timing' = timing]_vars

(***************************************************************************)
(* C11: a success carries a TLS record, and a tls timing, iff the request  *)
(* URL was https; the record is the certificate presented for the host of  *)
(* the request URL, and the tls phase ended within the first hop, so a     *)
(* handshake of a later hop neither creates nor overwrites them.           *)
(***************************************************************************)
InitialHTTPS == Parse(request.URL).Scheme = HTTPS

C11_TLSOfFirstHopOnly ==
    /\ tlsInfo # Empty =>
          /\ InitialHTTPS
          /\ tlsInfo[1].Subject = Hostname(Parse(request.URL))
    /\ timing.TLSStart # Empty => InitialHTTPS
    /\ timing.TLSEnd # Empty /\ Len(redirectChain) > 0 =>
          timing.TLSEnd[1] <= timing.RequestStart[1] + redirectChain[1].Duration
    /\ Succeeded =>
          /\ Data.TLS # Empty <=> InitialHTTPS
          /\ Data.Timing.TLS # Empty <=> InitialHTTPS
          /\ Data.TLS = tlsInfo

C11_Witness ==
    /\ Succeeded
    /\ Len(Data.RedirectChain) > 0
    /\ ~InitialHTTPS
    /\ ctx.isHTTPS
    /\ ctx.host # Hostname(Parse(request.URL))
    /\ Data.TLS = Empty
    /\ Data.Timing.TLS = Empty

(***************************************************************************)
(* C12: a step that ends the execution in the TLS handshake, the deadline  *)
(* of the hop not having passed, ends it with TLS_ERROR; and a handshake   *)
(* completes only with a certificate that verifies.  The code fails the    *)
(* first part: a failed handshake is an error of client.Do and is reported *)
(* as REQUEST_FAILED; the code never produces TLS_ERROR.                   *)
(***************************************************************************)
BeforeDeadline == hop.deadline = Empty \/ now' < hop.deadline[1]

C12_HandshakeFailureIsTLSError ==
    [][/\ pc = "tls" /\ pc' = "done" /\ BeforeDeadline =>
             result' = NewErrorResponse("TLS_ERROR")
       /\ pc = "tls" /\ pc' = "send" => Verifies(server, ctx.host)]_vars

(***************************************************************************)
(* C13: a step that ends the execution in the TCP dial, the deadline of    *)
(* the hop not having passed, ends it with CONNECTION_FAILED.  The code    *)
(* fails it: a failed dial is an error of client.Do and is reported as     *)
(* REQUEST_FAILED; the code never produces CONNECTION_FAILED.              *)
(***************************************************************************)
C13_DialFailureIsConnectionFailed ==
    [][pc = "dial" /\ pc' = "done" /\ BeforeDeadline =>
          result' = NewErrorResponse("CONNECTION_FAILED")]_vars

(***************************************************************************)
(* C14: when the host of the request URL is a name that has no address,    *)
(* the execution ends at the DNS step with DNS_ERROR; DNS_ERROR is         *)
(* returned with no connection dialled; a host that is a literal IP never  *)
(* gives DNS_ERROR, takes no lookup time and resolves to one address,      *)
(* which is the address the literal denotes.                               *)
(***************************************************************************)
InitialHost == newRequestContext(request.URL).ctx.host

DNSDone == pc \notin {"start", "dns"} /\ ~Failed("INVALID_URL")

C14_DNSErrorOrLiteral ==
    /\ Failed("DNS_ERROR") => sockets = Empty /\ exchanges = Empty /\ dns = NoDNS
    /\ DNSDone /\ ~ParseIP(InitialHost).ok /\ server.ips = Empty =>
          Failed("DNS_ERROR")
    /\ DNSDone /\ ParseIP(InitialHost).ok =>
          /\ ~Failed("DNS_ERROR")
          /\ Len(dns.resolvedIPs) = 1
          /\ ParseIP(dns.resolvedIPs[1]) = ParseIP(InitialHost)
          /\ dns.serverIP = dns.resolvedIPs[1]
          /\ timing.DNSEnd = timing.DNSStart

C14_Witness ==
    /\ Succeeded
    /\ ParseIP(InitialHost).ok
    /\ server.ips = Empty
    /\ Data.ResolvedIPs # <<InitialHost>>
    /\ Data.Timing.Total > 0

(***************************************************************************)
(* C15: an execution that the caller cancelled while it was suspended in   *)
(* the DNS lookup, the dial, the handshake, the send or the body read does *)
(* not end in success, and it ends with code CANCELLED.  The code fails    *)
(* it: ExecuteRequest has no way to be cancelled and never produces        *)
(* CANCELLED.                                                              *)
(***************************************************************************)
C15_CancelledEndsCancelled ==
    caller = "cancelled" => ~Succeeded /\ (Done => Failed("CANCELLED"))

(***************************************************************************)
(* C16: when the execution has returned every connection it dialled is     *)
(* closed, and while it runs the connection of every completed hop is      *)
(* closed.  The code fails it: each hop has a transport of its own with    *)
(* keep-alive on, which after the body was read keeps the connection in    *)
(* its idle pool, and nothing closes that pool.                            *)
(***************************************************************************)
C16_SocketsReleased ==
    /\ Done => \A i \in 1..Len(sockets) : sockets[i] = "closed"
    /\ \A i \in 1..(Len(sockets) - 1) : sockets[i] = "closed"

(***************************************************************************)
(* Requests as they left: those of the completed exchanges and the one of  *)
(* the hop in progress.                                                    *)
(***************************************************************************)
InHop == pc \in {"dial", "tls", "send", "read"}

Issued ==
    {exchanges[i].request : i \in 1..Len(exchanges)}
      \cup (IF InHop THEN {hop.req} ELSE {})

\* header names are compared without regard to letter case
SameName(a, b) == Lowered(a) = Lowered(b)

\* the values the caller gave under a name, in any letter case
CallerValues(headers, name) ==
    {headers[k] : k \in {j \in DOMAIN headers : SameName(j, name)}}

(***************************************************************************)
(* C17: the header of every request issued has exactly one Accept-Encoding *)
(* field; it is "gzip, deflate, br" when the caller's map has no           *)
(* Accept-Encoding entry in any letter case, and otherwise it is a value   *)
(* the caller gave, an empty one included; every other field is a field of *)
(* the caller, and every field of the caller is sent.  The code fails it   *)
(* for an entry with an empty value, which it replaces by the default.     *)
(***************************************************************************)
AcceptEncodingRule(sent, headers) ==
    /\ Cardinality({n \in DOMAIN sent : SameName(n, AcceptEncoding)}) = 1
    /\ \A n \in DOMAIN sent :
          SameName(n, AcceptEncoding) =>
              IF CallerValues(headers, AcceptEncoding) = {}
              THEN sent[n] = DefaultAcceptEncoding
              ELSE sent[n] \in CallerValues(headers, AcceptEncoding)
    /\ \A n \in DOMAIN sent :
          ~SameName(n, AcceptEncoding) => sent[n] \in CallerValues(headers, n)
    /\ \A k \in DOMAIN headers : \E n \in DOMAIN sent : SameName(n, k)

C17_AcceptEncodingPreserved ==
    \A req \in Issued : AcceptEncodingRule(req.header, request.Headers)

(***************************************************************************)
(* C18: every request issued, after whatever redirect status, has the      *)
(* method of the input (GET standing for an empty method) and the whole    *)
(* body of the input.                                                      *)
(***************************************************************************)
C18_MethodAndBodyOnEveryHop ==
    \A req \in Issued :
        /\ request.Method # Empty => req.method = request.Method
        /\ request.Method = Empty => req.method = MethodGET
        /\ req.body = request.Body

C18_Witness ==
    /\ Succeeded
    /\ request.Method = MethodPOST
    /\ request.Body = <<BodyXY>>
    /\ {Data.RedirectChain[i].Status : i \in 1..Len(Data.RedirectChain)}
          = {301, 302, 303, 307, 308}
    /\ exchanges[Len(exchanges)].request.method = MethodPOST
    /\ exchanges[Len(exchanges)].request.body = <<BodyXY>>

(***************************************************************************)
(* Vocabulary of the properties of updateFromRedirect.                     *)
(***************************************************************************)
\* a Location that begins with http:// or https://
IsAbsolute(location) ==
    \/ HasPrefix(location, <<"h", "t", "t", "p", ":", "/", "/">>)
    \/ HasPrefix(location, <<"h", "t", "t", "p", "s", ":", "/", "/">>)

\* the part of c.url between "://" and the path
AuthorityOf(c) ==
    SubSeq(c.url, (IF c.isHTTPS THEN 5 ELSE 4) + 4, Len(c.url) - Len(c.path))

\* updateFromRedirect was applied to ctx with the Location resp'.location
Redirected == ctx' # ctx \/ resp' # resp \/ hop' # hop

(***************************************************************************)
(* C19: updateFromRedirect with a Location that begins with neither        *)
(* http:// nor https:// leaves isHTTPS, host and port as they are and sets *)
(* the path to the Location when that begins with "/" and to "/" followed  *)
(* by the Location otherwise, whatever the path was.                       *)
(***************************************************************************)
C19_RelativeChangesOnlyPath ==
    [][Redirected /\ ~IsAbsolute(resp'.location) =>
          /\ ctx'.isHTTPS = ctx.isHTTPS
          /\ ctx'.host = ctx.host
          /\ ctx'.port = ctx.port
          /\ ctx'.path = IF resp'.location[1] = "/" THEN resp'.location
                         ELSE <<"/">> \o resp'.location]_vars

C19_Witness ==
    /\ pc = "redirect"
    /\ request.URL = URLDeep
    /\ resp.location = LocDir
    /\ ctx.path = <<"/", "e", "/", "f">>
    /\ ctx.host = <<"a">>
    /\ hop.url = HTTP \o SchemeSep \o <<"a", "/", "e", "/", "f">>

Payload == Decompress(resp.body, resp.contentEncoding).Data

\* the content-type of the final response
ContentType == FirstValue(resp.contentType)

\* the text types as C21 lists them
ListedTextTypes ==
    {<<"t", "e", "x", "t", "/">>, <<"+", "j", "s", "o", "n">>, <<"+", "x", "m", "l">>}
      \cup {Application \o sub :
               sub \in {<<"j", "s", "o", "n">>,
                        <<"x", "m", "l">>,
                        <<"j", "a", "v", "a", "s", "c", "r", "i", "p", "t">>,
                        <<"x", "-", "j", "a", "v", "a", "s", "c", "r", "i", "p", "t">>,
                        <<"e", "c", "m", "a", "s", "c", "r", "i", "p", "t">>,
                        <<"x", "-", "w", "w", "w", "-", "f", "o", "r", "m", "-",
                          "u", "r", "l", "e", "n", "c", "o", "d", "e", "d">>}}

\* the content-type is missing or, in lower case, contains a listed text type
ListedAsText(contentType) ==
    \/ contentType = Empty
    \/ \E t \in ListedTextTypes :
          \E i \in 1..Len(contentType) :
             /\ i + Len(t) - 1 <= Len(contentType)
             /\ \A j \in 1..Len(t) : ToLower(contentType[i + j - 1]) = t[j]

\* the value of a character of the base64 alphabet
Sextet(c) == IndexOf(encodeStd, c) - 1

\* the bytes a padded base64 text stands for
RECURSIVE DecodeString(_)
DecodeString(s) ==
    IF Len(s) < 4 THEN Empty
    ELSE IF s[3] = "="
    THEN <<(Sextet(s[1]) * 4) + (Sextet(s[2]) \div 16)>>
    ELSE IF s[4] = "="
    THEN <<(Sextet(s[1]) * 4) + (Sextet(s[2]) \div 16),
           ((Sextet(s[2]) % 16) * 16) + (Sextet(s[3]) \div 4)>>
    ELSE <<(Sextet(s[1]) * 4) + (Sextet(s[2]) \div 16),
           ((Sextet(s[2]) % 16) * 16) + (Sextet(s[3]) \div 4),
           ((Sextet(s[3]) % 4) * 64) + Sextet(s[4])>> \o DecodeString(From(s, 4))

(***************************************************************************)
(* C21: in every successful response isBinary is false iff the lower-cased *)
(* content-type is missing (empty) or contains a listed text type; when    *)
(* isBinary is true bodyBase64 is set, decodes to the payload, and body is *)
(* empty; otherwise body is the payload and bodyBase64 is null.            *)
(***************************************************************************)
C21_BodyOrBase64 ==
    Succeeded =>
        /\ ~Data.IsBinary <=> ListedAsText(ContentType)
        /\ Data.IsBinary =>
              /\ Data.BodyBase64 # Empty
              /\ Len(Data.BodyBase64[1]) % 4 = 0
              /\ DecodeString(Data.BodyBase64[1]) = Payload
              /\ Data.Body = Empty
        /\ ~Data.IsBinary =>
              /\ Data.Body = Payload
              /\ Data.BodyBase64 = Empty

\* a binary response of two Content-Type values whose payload of four bytes
\* came compressed
C21_Witness ==
    /\ Succeeded
    /\ Data.IsBinary
    /\ Len(resp.contentType) = 2
    /\ resp.contentEncoding = "gzip"
    /\ Len(Payload) = 4
    /\ Len(Data.BodyBase64[1]) = 8

(***************************************************************************)
(* C22: a successful response whose content-encoding is gzip, deflate or   *)
(* br has compressed, uncompressed, encoding and compressionRatio in its   *)
(* sizeBreakdown, also when the decompressed body is empty, with           *)
(* compressed = raw body length and uncompressed = size = decompressed     *)
(* length.  The code leaves the four fields out when the decompressed body *)
(* is empty.                                                               *)
(***************************************************************************)
C22_CompressionFieldsPresent ==
    Succeeded /\ resp.contentEncoding \in {"gzip", "deflate", "br"} =>
        /\ Data.Size = Len(Payload)
        /\ Data.SizeBreakdown.Compressed = <<Len(resp.body)>>
        /\ Data.SizeBreakdown.Uncompressed = <<Len(Payload)>>
        /\ Data.SizeBreakdown.Encoding = <<resp.contentEncoding>>
        /\ Data.SizeBreakdown.CompressionRatio = <<<<Len(resp.body), Len(Payload)>>>>

\* the codes of the error taxonomy
Taxonomy ==
    {"INVALID_URL", "DNS_ERROR", "CONNECTION_FAILED", "TLS_ERROR",
     "REQUEST_BUILD_ERROR", "REQUEST_FAILED", "BODY_READ_ERROR",
     "DECOMPRESSION_ERROR", "TOO_MANY_REDIRECTS", "TIMEOUT", "CANCELLED"}

\* success with data and without error, or failure with an error of the
\* taxonomy and without data
Envelope(res) ==
    \/ res.success /\ res.data # Empty /\ res.error = Empty
    \/ /\ ~res.success
       /\ res.data = Empty
       /\ res.error # Empty
       /\ res.error[1].code \in Taxonomy

\* the phases a network step of the current hop may lead to when it does
\* not fail
Onward ==
    CASE pc = "dial" -> {"tls", "send"}
      [] pc = "tls" -> {"send"}
      [] pc = "send" -> {"read"}
      [] pc = "read" -> {"hop"}
      [] OTHER -> {"dns", "hop", "dial"}

(***************************************************************************)
(* C23: a finished execution holds success with data and no error, or      *)
(* failure with an error whose code is of the taxonomy and no data (so no  *)
(* timing and no redirect chain); a network step or the decompression that *)
(* fails ends the execution in that step, without another request and      *)
(* without a second attempt (every step of the execution moves it onward   *)
(* or ends it); nothing happens after the end.                             *)
(***************************************************************************)
C23_ErrorEnvelopeOnly ==
    /\ [](Done => Envelope(result))
    /\ [][/\ pc # "done"
          /\ caller' = caller => pc' \in Onward \cup {"done"}
          /\ pc' = "done" /\ ~result'.success =>
                /\ Envelope(result')
                /\ exchanges' = exchanges
                /\ Len(sockets') = Len(sockets)
          /\ pc = "read" /\ pc' = "done" /\ DecompressFails(resp) =>
                ~result'.success]_vars

\* a failure of the second exchange, after a redirect was recorded and
\* phase timings were taken
C23_Witness ==
    /\ Failed("DECOMPRESSION_ERROR")
    /\ Len(redirectChain) >= 1
    /\ Len(exchanges) = 2
    /\ timing.DNSEnd # Empty
    /\ timing.TTFB # Empty
    /\ result.data = Empty

\* data is what a call with the locals l returns when it runs alone against
\* the same remote behaviour: status and URL of its last exchange, one hop
\* per earlier exchange, the TLS record and the TLS phase of an https
\* request, the phases of the first hop
DataOfOwnRun(l, data) ==
    /\ data.Status = l.exchanges[Len(l.exchanges)].status
    /\ data.URL = l.exchanges[Len(l.exchanges)].url
    /\ Len(data.RedirectChain) = Len(l.exchanges) - 1
    /\ \A i \in 1..Len(data.RedirectChain) :
          /\ data.RedirectChain[i].URL = l.exchanges[i].url
          /\ data.RedirectChain[i].Status = l.exchanges[i].status
    /\ \A i \in 1..Len(l.exchanges) :
          /\ l.exchanges[i].status = Respond(l.server, i).status
          /\ l.exchanges[i].location = Respond(l.server, i).location
    /\ l.exchanges[1].url = l.request.URL
    /\ data.TLS =
          (IF Parse(l.request.URL).Scheme = HTTPS
           THEN <<[Subject |-> Hostname(Parse(l.request.URL)),
                   Issuer |-> l.server.cert]>>
           ELSE Empty)
    /\ data.Timing.TLS # Empty <=> Parse(l.request.URL).Scheme = HTTPS
    /\ data.Timing.DNS # Empty
    /\ data.Timing.TCP # Empty
    /\ data.Timing.TTFB # Empty
    /\ data.Timing.Download # Empty

ResultOfOwnRun(l) ==
    l.pc = "done" /\ l.result.success => DataOfOwnRun(l, l.result.data[1])

(***************************************************************************)
(* C24: two executions interleaved in any way do not interfere: a step of  *)
(* one leaves everything the other owns as it was, a switch of the         *)
(* scheduler hands each execution back exactly what it owned, and each     *)
(* successful result has the status, URL, redirect chain, TLS record and   *)
(* timing fields that its own request and its own exchanges determine.     *)
(***************************************************************************)
C24_NoInterference ==
    /\ [](peer # Empty => ResultOfOwnRun(Locals) /\ ResultOfOwnRun(peer[1]))
    /\ [][peer # Empty =>
            \/ peer' = peer
            \/ peer' = <<Locals>> /\ <<Locals>>' = peer]_vars

\* both executions finished with success, one over https with a TLS record,
\* the other over http after two redirects that passed an https hop
C24_Witness ==
    /\ peer # Empty
    /\ Succeeded
    /\ peer[1].pc = "done" /\ peer[1].result.success
    /\ Data.TLS # Empty
    /\ Len(Data.RedirectChain) = 1
    /\ peer[1].result.data[1].TLS = Empty
    /\ Len(peer[1].result.data[1].RedirectChain) = 2

\* the first bytes of the JSON text of a ProxyResponse: {"success":
EnvelopeStart == <<123, 34, 115, 117, 99, 99, 101, 115, 115, 34, 58>>

(***************************************************************************)
(* C25: in the web deployment the response to a POST to /api/proxy has     *)
(* status 200 and the engine's envelope as its body.  The web server       *)
(* registers the static file handler only: the POST is answered with       *)
(* index.html, or with 404 when there is none, and the engine is not       *)
(* called.                                                                 *)
(***************************************************************************)
C25_ProxyEndpointAnswersEnvelope ==
    pc = "served" /\ hop.req.method = MethodPOST /\ hop.req.url = PathProxy =>
        /\ resp.status = 200
        /\ HasPrefix(resp.body, EnvelopeStart)

\* the call takes the pair (store, key) out of the Database
Drops(call, store, key) ==
    \/ call.op = "Remove" /\ call.store = store /\ call.key = key
    \/ call.op = "Clear" /\ call.store = store

\* the Sets on (store, key) that no later Remove of the pair and no later
\* Clear of the store follows
LiveSets(store, key) ==
    {i \in 1..Len(calls) :
        /\ calls[i].op = "Set" /\ calls[i].store = store /\ calls[i].key = key
        /\ \A j \in (i + 1)..Len(calls) : ~Drops(calls[j], store, key)}

\* the value of the most recent of them, nil when there is none
Stored(store, key) ==
    IF LiveSets(store, key) = {} THEN Empty
    ELSE <<calls[CHOOSE i \in LiveSets(store, key) :
                    \A j \in LiveSets(store, key) : j <= i].value>>

(***************************************************************************)
(* C26: after any sequence of Set, Remove and Clear, Get(store, key) is    *)
(* the value of the most recent Set on the pair that no Remove of the pair *)
(* and no Clear of the store follows, and nil otherwise; Has agrees with   *)
(* Get; Keys(store) is the set of the keys present in the store; so a      *)
(* Clear or a Remove leaves every other store and key as it was, and a     *)
(* Remove of an absent key succeeds.                                       *)
(***************************************************************************)
C26_DatabaseIsAMap ==
    pc = "storage" =>
        \A store \in Stores :
            /\ \A key \in Keys :
                  /\ StorageGet(db, store, key) = Stored(store, key)
                  /\ StorageHas(db, store, key) <=> Stored(store, key) # Empty
            /\ StorageKeys(db, store) = {key \in Keys : Stored(store, key) # Empty}

\* a Set that was overwritten, a Clear of the other store and a Remove of a
\* key that is absent, with the empty string stored under the empty key
C26_Witness ==
    /\ pc = "storage"
    /\ Len(calls) = 4
    /\ calls[1] = [op |-> "Set", store |-> "requests", key |-> "", value |-> "v"]
    /\ calls[2] = [op |-> "Set", store |-> "requests", key |-> "", value |-> ""]
    /\ calls[3] = [op |-> "Clear", store |-> "settings", key |-> "", value |-> ""]
    /\ calls[4] = [op |-> "Remove", store |-> "requests", key |-> "k", value |-> ""]
    /\ StorageGet(db, "requests", "") = <<"">>
    /\ StorageKeys(db, "requests") = {""}

\* the fields of a context apart from its url
Target(c) == [isHTTPS |-> c.isHTTPS, host |-> c.host, port |-> c.port, path |-> c.path]

(***************************************************************************)
(* C27: after construction and after any sequence of updateFromRedirect    *)
(* calls, a new request context constructed from ctx.url is constructed    *)
(* without error and has the isHTTPS, host, port and path of ctx, also for *)
(* IPv6 literals on the default port and for absolute Locations that fail  *)
(* to parse.  The code writes an IPv6 literal on the default port without  *)
(* brackets, and stores an unparsable Location as url while the fields     *)
(* keep the previous target.                                               *)
(***************************************************************************)
C27_ContextRoundTrip ==
    pc = "redirect" =>
        /\ ~newRequestContext(ctx.url).err
        /\ Target(newRequestContext(ctx.url).ctx) = Target(ctx)

(***************************************************************************)
(* C28: provided each network step eventually completes or fails, every    *)
(* execution returns a success or an error, and it makes at most 20 HTTP   *)
(* exchanges, whatever the servers answer, redirect cycles included.       *)
(***************************************************************************)
C28_Terminates ==
    /\ <>(Done /\ Envelope(result))
    /\ [](Len(exchanges) <= 20)

\* a redirect cycle ended by the cap after exactly 20 exchanges
C28_Witness ==
    /\ Failed("TOO_MANY_REDIRECTS")
    /\ Len(exchanges) = 20
    /\ server.n > 20
    /\ exchanges[20].url = exchanges[18].url

(***************************************************************************)
(* C29: every entry of the caller's header map is a field of every request *)
(* issued, under the same name (letter case apart) and with the caller's   *)
(* value, whatever the host, port and scheme the hop goes to.  The code    *)
(* fails it for an Accept-Encoding entry with an empty value, which every  *)
(* hop replaces by the default (C17).                                      *)
(***************************************************************************)
Forwarded(sent, headers) ==
    \A k \in DOMAIN headers :
        \E n \in DOMAIN sent : SameName(n, k) /\ sent[n] = headers[k]

C29_HeadersForwardedUnchanged ==
    \A req \in Issued : Forwarded(req.header, request.Headers)

(***************************************************************************)
(* C30: the lookup is made once, before the first hop, and no later step   *)
(* changes its result; a successful response reports as resolvedIps the    *)
(* addresses of the host of the input URL (the resolver's list for a name, *)
(* the address itself for a literal) and as serverIp the first of them,    *)
(* also after redirects to another host, and as hostname and port the host *)
(* and port that the URL of the last request issued names.                 *)
(***************************************************************************)
FinalURL == exchanges[Len(exchanges)].request.url

C30_DNSOfInitialHost ==
    /\ [][/\ pc' = "dns" /\ pc # "dns" => pc = "start"
          /\ pc # "dns" => dns' = dns]_vars
    /\ [](Succeeded =>
            /\ ParseIP(InitialHost).ok =>
                  /\ Len(Data.ResolvedIPs) = 1
                  /\ ParseIP(Data.ResolvedIPs[1]) = ParseIP(InitialHost)
            /\ ~ParseIP(InitialHost).ok => Data.ResolvedIPs = server.ips
            /\ Data.ServerIP = Data.ResolvedIPs[1]
            /\ Data.Hostname = newRequestContext(FinalURL).ctx.host
            /\ Data.Port = newRequestContext(FinalURL).ctx.port)

C30_Witness ==
    /\ Succeeded
    /\ ParseIP(InitialHost).ok
    /\ Len(Data.RedirectChain) > 0
    /\ ~ParseIP(Data.Hostname).ok
    /\ Data.Port # newRequestContext(request.URL).ctx.port
    /\ Data.ResolvedIPs # server.ips

====
